---------------------------- MODULE Spec2Model ----------------------------
(***************************************************************************)
(* A model of the JSON::Parse core (Json3-perl.c): the number, string and   *)
(* literal scanners and the array and object composers, compiled twice     *)
(* from one source: with PERLING (number, string, ... build Perl values)   *)
(* and without it (valid_number, valid_string, ... only read bytes).       *)
(*                                                                         *)
(* The input is a sequence of bytes followed by a NUL terminator.  A byte  *)
(* is a one-character string; "NUL" is the byte 0x00 and "SOH" the control *)
(* byte 0x01.  Offsets are 0-based, as `parser->end - parser->input'.      *)
(***************************************************************************)
EXTENDS Integers, Sequences, FiniteSets, TLC

VARIABLES
    input,      \* the bytes handed to the entry point (without the NUL)
    longBits,   \* width of the build's `long': 32 or 64
    variant,    \* "valid": compiled without PERLING; "perl": with PERLING
    parser,     \* the fields of parser_t
    stack,      \* the C call stack, innermost frame last
    status,     \* "running" | "ok" | "empty" | "failed"
    msg,        \* the message handed to failbadinput
    result,     \* the value the entry point returns
    heap,       \* live Perl values and the singletons' reference counts
    lastobj,    \* the hash and the stores of the object that returned last
    vres,       \* the outcome of the valid_ run, kept for the PERLING run
    threads,    \* parse calls running at once, and the singletons they share
    ret         \* what valid_json has returned to its caller

vars == <<input, longBits, variant, parser, stack, status, msg, result,
          heap, lastobj, vres, threads, ret>>

-----------------------------------------------------------------------------
(* Bytes and their classes. *)

NUL == "NUL"

WHITESPACE == {" ", "\t", "\n", "\r"}

DIGIT19 == {"1", "2", "3", "4", "5", "6", "7", "8", "9"}

DIGIT == {"0"} \cup DIGIT19

(* The control bytes 0x01-0x1F, of which these stand for all. *)
BADBYTES == {"SOH", "\t", "\n", "\r", "US"}

DigitVal(c) ==
    CASE c = "0" -> 0 [] c = "1" -> 1 [] c = "2" -> 2 [] c = "3" -> 3
      [] c = "4" -> 4 [] c = "5" -> 5 [] c = "6" -> 6 [] c = "7" -> 7
      [] c = "8" -> 8 [] c = "9" -> 9

DigitChar(d) ==
    CASE d = 0 -> "0" [] d = 1 -> "1" [] d = 2 -> "2" [] d = 3 -> "3"
      [] d = 4 -> "4" [] d = 5 -> "5" [] d = 6 -> "6" [] d = 7 -> "7"
      [] d = 8 -> "8" [] d = 9 -> "9"

(* The byte at 0-based offset i of the buffer: the input, then its NUL. *)
ByteAt(in, i) == IF i < Len(in) THEN in[i + 1] ELSE NUL

(* input[from .. to-1], 0-based, as the C code's (start, length) slices. *)
Slice(in, from, to) == SubSeq(in, from + 1, to)

(* Mutant of STRINGEND: every zero byte taken for the end of the input. *)
STRINGEND_anyNul(e, in) == TRUE

(* STRINGEND, tested after NEXTBYTE has moved the cursor past the byte it *)
(* read: true when that byte was the terminating NUL.                      *)
STRINGEND(e, in) == e > Len(in)

-----------------------------------------------------------------------------
(* C arithmetic and the C library's conversions, on lexemes. *)

INT_MAX_DIGITS == 8

Limb == 256 * 256

(* A 32-bit two's complement int from its two 16-bit halves. *)
Int32(hi, lo) == IF hi >= 32768 THEN (hi - Limb) * Limb + lo ELSE hi * Limb + lo

(* 10 * g + d in `int' arithmetic; an overflow wraps around, as the builds *)
(* in use compile it.                                                      *)
Mul10Add(g, d) ==
    LET lo  == g % Limb
        hi  == (g \div Limb) % Limb
        lo2 == lo * 10 + d
        hi2 == (hi * 10 + (lo2 \div Limb)) % Limb
    IN  Int32(hi2, lo2 % Limb)

(* The number of digits of lex from position i (1-based) on. *)
RECURSIVE SpanDigits(_, _)
SpanDigits(lex, i) ==
    IF i <= Len(lex) /\ lex[i] \in DIGIT THEN 1 + SpanDigits(lex, i + 1) ELSE 0

At(lex, i) == IF i >= 1 /\ i <= Len(lex) THEN lex[i] ELSE NUL

RECURSIVE StripZeros(_)
StripZeros(ds) ==
    IF Len(ds) > 1 /\ ds[1] = "0" THEN StripZeros(Tail(ds)) ELSE ds

(* a <= b for two decimal numerals without leading zeros. *)
RECURSIVE DecLexLE(_, _)
DecLexLE(a, b) ==
    IF a = <<>> THEN TRUE
    ELSE IF DigitVal(a[1]) # DigitVal(b[1]) THEN DigitVal(a[1]) < DigitVal(b[1])
    ELSE DecLexLE(Tail(a), Tail(b))

DecLE(a, b) == Len(a) < Len(b) \/ (Len(a) = Len(b) /\ DecLexLE(a, b))

(* The value of a decimal numeral modulo 2^32, as two 16-bit halves. *)
RECURSIVE DigitsMod32(_, _, _)
DigitsMod32(ds, hi, lo) ==
    IF ds = <<>> THEN <<hi, lo>>
    ELSE LET lo2 == lo * 10 + DigitVal(ds[1])
         IN  DigitsMod32(Tail(ds), (hi * 10 + (lo2 \div Limb)) % Limb, lo2 % Limb)

Negate32(h) ==
    IF h = <<0, 0>> THEN h
    ELSE <<(Limb - 1 - h[1] + (IF h[2] = 0 THEN 1 ELSE 0)) % Limb, (Limb - h[2]) % Limb>>

LongMaxDigits(lb) ==
    IF lb = 32
    THEN <<"2","1","4","7","4","8","3","6","4","7">>
    ELSE <<"9","2","2","3","3","7","2","0","3","6","8","5","4","7","7","5","8","0","7">>

LongMinDigits(lb) ==
    IF lb = 32
    THEN <<"2","1","4","7","4","8","3","6","4","8">>
    ELSE <<"9","2","2","3","3","7","2","0","3","6","8","5","4","7","7","5","8","0","8">>

(* strtol (lex, & end, 10) assigned to an `int': end is the number of bytes *)
(* converted and i the value after the conversion from long to int.  A     *)
(* value out of the range of long is clamped to LONG_MAX or LONG_MIN.      *)
strtol(lex, lb) ==
    LET neg  == At(lex, 1) = "-"
        i0   == IF At(lex, 1) \in {"-", "+"} THEN 2 ELSE 1
        n    == SpanDigits(lex, i0)
        ds   == StripZeros(SubSeq(lex, i0, i0 + n - 1))
        over == IF neg THEN ~DecLE(ds, LongMinDigits(lb)) ELSE ~DecLE(ds, LongMaxDigits(lb))
        h    == DigitsMod32(ds, 0, 0)
        s    == IF neg THEN Negate32(h) ELSE h
    IN  IF n = 0 THEN [end |-> 0, i |-> 0]
        ELSE [end |-> i0 + n - 1,
              i   |-> IF ~over THEN Int32(s[1], s[2])
                      ELSE IF lb = 32
                           THEN (IF neg THEN -2147483647 - 1 ELSE 2147483647)
                           ELSE (IF neg THEN 0 ELSE -1)]

(* The value of an exponent's digits, saturating (every double is 0 or    *)
(* infinite long before).                                                *)
RECURSIVE ExpVal(_, _)
ExpVal(ds, acc) ==
    IF ds = <<>> THEN acc
    ELSE LET a == acc * 10 + DigitVal(ds[1])
         IN  ExpVal(Tail(ds), IF a > 9999 THEN 9999 ELSE a)

RECURSIVE StripTrailingZeros(_)
StripTrailingZeros(ds) ==
    IF Len(ds) > 1 /\ ds[Len(ds)] = "0"
    THEN StripTrailingZeros(SubSeq(ds, 1, Len(ds) - 1)) ELSE ds

(* strtod (lex, & end): end is the number of bytes converted (the longest  *)
(* prefix that is a decimal floating-point numeral) and d the decimal it   *)
(* denotes: sign, significant digits and power of ten.                     *)
strtod(lex) ==
    LET neg   == At(lex, 1) = "-"
        i0    == IF At(lex, 1) \in {"-", "+"} THEN 2 ELSE 1
        n1    == SpanDigits(lex, i0)
        isdot == At(lex, i0 + n1) = "."
        n2    == IF isdot THEN SpanDigits(lex, i0 + n1 + 1) ELSE 0
        mok   == n1 + n2 > 0
        mend  == IF isdot THEN i0 + n1 + n2 ELSE i0 + n1 - 1
        ise   == At(lex, mend + 1) \in {"e", "E"}
        sgn   == At(lex, mend + 2) \in {"+", "-"}
        q     == IF sgn THEN mend + 3 ELSE mend + 2
        n3    == IF ise THEN SpanDigits(lex, q) ELSE 0
        eneg  == sgn /\ At(lex, mend + 2) = "-"
        ev    == ExpVal(SubSeq(lex, q, q + n3 - 1), 0)
        mant  == SubSeq(lex, i0, i0 + n1 - 1) \o SubSeq(lex, i0 + n1 + 1, i0 + n1 + n2)
        sig   == StripZeros(mant)
        sig2  == StripTrailingZeros(sig)
        e10   == (IF eneg THEN -ev ELSE ev) - n2 + (Len(sig) - Len(sig2))
    IN  IF ~mok THEN [end |-> 0, d |-> [neg |-> FALSE, sig |-> <<"0">>, e10 |-> 0]]
        ELSE [end |-> IF n3 > 0 THEN q + n3 - 1 ELSE mend,
              d   |-> IF sig2 = <<"0">>
                      THEN [neg |-> neg, sig |-> sig2, e10 |-> 0]
                      ELSE [neg |-> neg, sig |-> sig2, e10 |-> e10]]


-----------------------------------------------------------------------------
(* Perl values (SV), as the PERLING variant builds them. *)

VOID == [t |-> "void"]

newSViv(i) == [t |-> "IV", iv |-> i]

newSVnv(d) == [t |-> "NV", nv |-> d]

newSVpv(s) == [t |-> "PV", pv |-> s, utf8 |-> FALSE]

json_true == [t |-> "json_true"]

json_false == [t |-> "json_false"]

json_null == [t |-> "json_null"]

newRV_av(av) == [t |-> "AV", av |-> av]

newRV_hv(hv) == [t |-> "HV", hv |-> hv]

SvUTF8_on(sv) == [sv EXCEPT !.utf8 = TRUE]

(* Mutant of hv_store: a key already there keeps its old value. *)
hv_store_keepFirst(hv, key, value) ==
    IF \E i \in DOMAIN hv : hv[i][1] = key THEN hv ELSE Append(hv, <<key, value>>)

(* A hash is the sequence of its <<key, value>> entries, one per key. *)
RECURSIVE HvIndex(_, _, _)
HvIndex(hv, key, i) ==
    IF i > Len(hv) THEN 0
    ELSE IF hv[i][1] = key THEN i ELSE HvIndex(hv, key, i + 1)

hv_exists(hv, key) == HvIndex(hv, key, 1) # 0

hv_fetch(hv, key) == hv[HvIndex(hv, key, 1)][2]

(* hv_store: a new entry, or the new value in place of the key's old one. *)
hv_store(hv, key, value) ==
    IF hv_exists(hv, key)
    THEN [hv EXCEPT ![HvIndex(hv, key, 1)] = <<key, value>>]
    ELSE Append(hv, <<key, value>>)

-----------------------------------------------------------------------------
(* The state one step works on, and the ways a routine ends. *)

Top(stk) == stk[Len(stk)]

Pop(stk) == SubSeq(stk, 1, Len(stk) - 1)

SetTop(stk, f) == [stk EXCEPT ![Len(stk)] = f]

Cur == [parser |-> parser, stack |-> stack, status |-> status, msg |-> msg,
        result |-> result, heap |-> heap, lastobj |-> lastobj]

Set(n) ==
    \E m \in {n} :
        /\ parser' = m.parser
        /\ stack' = m.stack
        /\ status' = m.status
        /\ msg' = m.msg
        /\ result' = m.result
        /\ heap' = m.heap
        /\ lastobj' = m.lastobj

(* failbadinput: the parse ends here with the message; the error record is *)
(* what the failure site has put into the parser so far.                   *)
failbadinput(n, m) == [n EXCEPT !.status = "failed", !.msg = m]

(* n new Perl values come to life (PERLING only). *)
Alloc(n, v, k) == IF v = "perl" THEN [n EXCEPT !.heap.sv = @ + k] ELSE n


-----------------------------------------------------------------------------
(* Escape decoding (get_string, get_key_string, resolve_string). *)

HexChar(d) ==
    CASE d < 10 -> DigitChar(d)
      [] d = 10 -> "A" [] d = 11 -> "B" [] d = 12 -> "C"
      [] d = 13 -> "D" [] d = 14 -> "E" [] d = 15 -> "F"

HexVal(c) ==
    CASE c \in DIGIT -> DigitVal(c)
      [] c \in {"a", "A"} -> 10 [] c \in {"b", "B"} -> 11
      [] c \in {"c", "C"} -> 12 [] c \in {"d", "D"} -> 13
      [] c \in {"e", "E"} -> 14 [] c \in {"f", "F"} -> 15
      [] OTHER -> -1

(* The printable ASCII bytes, 0x20 .. 0x7E. *)
Printable ==
    <<
      " ", "!", "\"", "#", "$", "%", "&", "'", "(", ")", "*", "+",
      ",", "-", ".", "/", "0", "1", "2", "3", "4", "5", "6", "7",
      "8", "9", ":", ";", "<", "=", ">", "?", "@", "A", "B", "C",
      "D", "E", "F", "G", "H", "I", "J", "K", "L", "M", "N", "O",
      "P", "Q", "R", "S", "T", "U", "V", "W", "X", "Y", "Z", "[",
      "\\", "]", "^", "_", "x60", "a", "b", "c", "d", "e", "f", "g",
      "h", "i", "j", "k", "l", "m", "n", "o", "p", "q", "r", "s",
      "t", "u", "v", "w", "x", "y", "z", "{", "|", "}", "~"
    >>

(* The name of the byte with the given value. *)
ByteOf(b) ==
    CASE b = 0 -> NUL [] b = 1 -> "SOH" [] b = 9 -> "\t" [] b = 10 -> "\n"
      [] b = 13 -> "\r"
      [] b >= 32 /\ b <= 126 -> Printable[b - 31]
      [] OTHER -> "x" \o HexChar(b \div 16) \o HexChar(b % 16)

(* The UTF-8 bytes of a code point (ucs2_to_utf8, extended to the        *)
(* supplementary planes for surrogate pairs).                            *)
utf8(cp) ==
    IF cp < 128 THEN <<ByteOf(cp)>>
    ELSE IF cp < 2048 THEN <<ByteOf(192 + (cp \div 64)), ByteOf(128 + (cp % 64))>>
    ELSE IF cp < 65536
    THEN <<ByteOf(224 + (cp \div 4096)), ByteOf(128 + ((cp \div 64) % 64)),
           ByteOf(128 + (cp % 64))>>
    ELSE <<ByteOf(240 + (cp \div 262144)), ByteOf(128 + ((cp \div 4096) % 64)),
           ByteOf(128 + ((cp \div 64) % 64)), ByteOf(128 + (cp % 64))>>

(* The four hex digits at offsets i .. i+3, or -1. *)
Hex4(in, i) ==
    LET h(k) == HexVal(ByteAt(in, i + k))
    IN  IF h(0) < 0 \/ h(1) < 0 \/ h(2) < 0 \/ h(3) < 0 THEN -1
        ELSE ((h(0) * 16 + h(1)) * 16 + h(2)) * 16 + h(3)

(* The offset of the first byte at i .. i+3 that is no hex digit. *)
RECURSIVE BadHex(_, _)
BadHex(in, i) == IF HexVal(ByteAt(in, i)) < 0 THEN i ELSE BadHex(in, i + 1)

SimpleEscape(c) ==
    CASE c = "\"" -> "\"" [] c = "\\" -> "\\" [] c = "/" -> "/"
      [] c = "b" -> ByteOf(8) [] c = "f" -> ByteOf(12) [] c = "n" -> "\n"
      [] c = "r" -> "\r" [] c = "t" -> "\t"

StrFail(kind, at) == [ok |-> FALSE, error |-> kind, bad_byte |-> at]

(* Decode the string body from offset i up to its closing quote into buf. *)
RECURSIVE get_string_from(_, _, _, _)
get_string_from(in, i, buf, fu) ==
    LET c == ByteAt(in, i)
        d == ByteAt(in, i + 1)
        cp == Hex4(in, i + 2)
        lo == Hex4(in, i + 8)
    IN  CASE c = "\"" -> [ok |-> TRUE, end |-> i + 1, buf |-> buf, force_unicode |-> fu]
          [] c = NUL ->
               IF i >= Len(in) THEN StrFail("json_error_unexpected_end_of_input", i)
               ELSE StrFail("json_error_illegal_byte", i)
          [] c \in BADBYTES -> StrFail("json_error_illegal_byte", i)
          [] c = "\\" ->
               IF d \in {"\"", "\\", "/", "b", "f", "n", "r", "t"}
               THEN get_string_from(in, i + 2, Append(buf, SimpleEscape(d)), fu)
               ELSE IF d # "u"
               THEN (IF d = NUL /\ i + 1 >= Len(in)
                     THEN StrFail("json_error_unexpected_end_of_input", i + 1)
                     ELSE StrFail("json_error_unexpected_character", i + 1))
               ELSE IF cp < 0
               THEN (IF ByteAt(in, BadHex(in, i + 2)) = NUL /\ BadHex(in, i + 2) >= Len(in)
                     THEN StrFail("json_error_unexpected_end_of_input", BadHex(in, i + 2))
                     ELSE StrFail("json_error_unexpected_character", BadHex(in, i + 2)))
               ELSE IF cp >= 55296 /\ cp <= 56319
               THEN (IF ByteAt(in, i + 6) = "\\" /\ ByteAt(in, i + 7) = "u"
                        /\ lo >= 56320 /\ lo <= 57343
                     THEN get_string_from(in, i + 12,
                              buf \o utf8(65536 + (cp - 55296) * 1024 + (lo - 56320)), TRUE)
                     ELSE IF i + 6 >= Len(in)
                     THEN StrFail("json_error_unexpected_end_of_input", i + 6)
                     ELSE StrFail("json_error_not_surrogate_pair", i + 6))
               ELSE get_string_from(in, i + 6, buf \o utf8(cp), fu \/ cp >= 128)
          [] OTHER -> get_string_from(in, i + 1, Append(buf, c), fu)

get_string(in, start) == get_string_from(in, start, <<>>, FALSE)

(* The raw key between the quotes, for get_key_string: where it ends and *)
(* whether an escape occurs in it.                                       *)
RECURSIVE HasEscape(_, _, _)
HasEscape(in, from, to) ==
    IF from >= to THEN FALSE
    ELSE IF ByteAt(in, from) = "\\" THEN TRUE ELSE HasEscape(in, from + 1, to)


-----------------------------------------------------------------------------
(* The parser's record and the activation records of the routines. *)

(* The token categories of parser->expected (a bit mask: here a set). *)
XWHITESPACE == "XWHITESPACE"
VALUE_START == "VALUE_START"
STRING_START == "STRING_START"
COMMA == "COMMA"
VALUE_SEPARATOR == "VALUE_SEPARATOR"
ARRAY_END == "ARRAY_END"
OBJECT_END == "OBJECT_END"

NULL == 0 - 1

(* parser_t parser_o = {0}, with the cursor at the first byte. *)
NewParser(u) ==
    [end |-> 0, unicode |-> u, force_unicode |-> FALSE, buffer |-> <<>>,
     error |-> "json_error_invalid", bad_type |-> "json_invalid",
     bad_byte |-> NULL, bad_beginning |-> NULL, expected |-> {}]

NewHeap == [sv |-> 0, rc |-> [json_true |-> 1, json_false |-> 1, json_null |-> 1]]

ParseFrame == [fn |-> "parse", pc |-> "parse_start"]

NumberFrame(start) ==
    [fn |-> "number", start |-> start, dot |-> FALSE, exp |-> FALSE,
     plus |-> FALSE, zero |-> FALSE, minus |-> FALSE, expminus |-> FALSE,
     guess |-> 0]

StringFrame(start) == [fn |-> "string", start |-> start, len |-> 0]

ArrayFrame(start) ==
    [fn |-> "array", pc |-> "array_start", start |-> start, comma |-> FALSE,
     av |-> <<>>]

NoKey == [start |-> NULL, length |-> 0, bad_boys |-> FALSE]

ObjectFrame(start, unicode) ==
    [fn |-> "object", pc |-> "hash_start", start |-> start,
     uniflag |-> IF unicode THEN -1 ELSE 1, middle |-> FALSE, comma |-> FALSE,
     hv |-> <<>>, key |-> NoKey, stores |-> <<>>]

(* resolve_string: the key's escapes decoded into parser->buffer. *)
resolve_string(in, key) == get_string(in, key.start).buf

(* A hash key: its bytes, and whether it is stored as UTF-8 (a negative *)
(* length handed to hv_store).                                          *)
HvKey(bytes, klen) == [k |-> bytes, utf8 |-> klen < 0]

(* The Perl values a value is made of, the shared literals apart. *)
RECURSIVE SvCount(_)
RECURSIVE SvCountAll(_, _)
SvCount(sv) ==
    CASE sv.t \in {"IV", "NV", "PV"} -> 1
      [] sv.t = "AV" -> 2 + SvCountAll(sv.av, 0)
      [] sv.t = "HV" -> 2 + SvCountAll(sv.hv, 2)
      [] OTHER -> 0

SvCountAll(vs, k) ==
    IF vs = <<>> THEN 0
    ELSE SvCount(IF k = 0 THEN vs[1] ELSE vs[1][k]) + SvCountAll(Tail(vs), k)

(* The references a value holds on the shared literal `lit'. *)
RECURSIVE LitCount(_, _)
RECURSIVE LitCountAll(_, _, _)
LitCount(sv, lit) ==
    CASE sv.t = lit -> 1
      [] sv.t = "AV" -> LitCountAll(sv.av, 0, lit)
      [] sv.t = "HV" -> LitCountAll(sv.hv, 2, lit)
      [] OTHER -> 0

LitCountAll(vs, k, lit) ==
    IF vs = <<>> THEN 0
    ELSE LitCount(IF k = 0 THEN vs[1] ELSE vs[1][k], lit) + LitCountAll(Tail(vs), k, lit)

(* SvREFCNT_dec of a value nobody else holds: it and its parts go. *)
SvREFCNT_dec(h, sv) ==
    [sv |-> h.sv - SvCount(sv),
     rc |-> [lit \in DOMAIN h.rc |-> h.rc[lit] - LitCount(sv, lit)]]

(* Mutants of ArrayTakes: `comma = 1' compiled under PERLING only; *)
(* `comma = 1' left out; the value put in front of the array.     *)
ArrayTakes_commaPerlOnly(f, value, v) ==
    [f EXCEPT !.comma = (v = "perl"),
              !.av = IF v = "perl" THEN Append(@, value) ELSE @,
              !.pc = "array_middle"]

ArrayTakes_noComma(f, value, v) ==
    [f EXCEPT !.av = IF v = "perl" THEN Append(@, value) ELSE @,
              !.pc = "array_middle"]

ArrayTakes_unshift(f, value, v) ==
    [f EXCEPT !.comma = TRUE,
              !.av = IF v = "perl" THEN <<value>> \o @ ELSE @,
              !.pc = "array_middle"]

(* array () after its PARSE switch (lines 516-519): a value has been    *)
(* seen, so a comma is legal; the value is pushed; on to array_middle.  *)
ArrayTakes(f, value, v) ==
    [f EXCEPT !.comma = TRUE,
              !.av = IF v = "perl" THEN Append(@, value) ELSE @,
              !.pc = "array_middle"]

(* object () after its PARSE switch (lines 727-740): the value is stored *)
(* under the key read before it; on to hash_start.                      *)
ObjectStores(f, hk, value, v) ==
    [f EXCEPT !.hv = IF v = "perl" THEN hv_store(@, hk, value) ELSE @,
              !.stores = IF v = "perl" THEN Append(@, <<hk, value>>) ELSE @,
              !.pc = "hash_start"]

(* Mutant of AfterValue: the test `key.bad_boys' taken as false. *)
AfterValue_keyUnresolved(n, value, in, v) ==
    LET f == Top(n.stack)
        kb == Slice(in, f.key.start, f.key.start + f.key.length)
        hk == HvKey(kb, Len(kb) * f.uniflag)
    IN  CASE f.fn = "parse" ->
               [n EXCEPT !.stack = SetTop(n.stack, [f EXCEPT !.pc = "check_end"]),
                         !.result = value]
          [] f.fn = "array" ->
               [n EXCEPT !.stack = SetTop(n.stack, ArrayTakes(f, value, v))]
          [] f.fn = "object" ->
               [n EXCEPT !.stack = SetTop(n.stack, ObjectStores(f, hk, value, v)),
                         !.heap = IF v = "perl" /\ hv_exists(f.hv, hk)
                                  THEN SvREFCNT_dec(@, hv_fetch(f.hv, hk)) ELSE @]

(* The caller takes up the value its PARSE switch has got: the driver  *)
(* goes on to the end check, array () pushes it, object () stores it.  *)
AfterValue(n, value, in, v) ==
    LET f == Top(n.stack)
        kb == IF f.key.bad_boys THEN resolve_string(in, f.key)
              ELSE Slice(in, f.key.start, f.key.start + f.key.length)
        hk == HvKey(kb, Len(kb) * f.uniflag)
    IN  CASE f.fn = "parse" ->
               [n EXCEPT !.stack = SetTop(n.stack, [f EXCEPT !.pc = "check_end"]),
                         !.result = value]
          [] f.fn = "array" ->
               [n EXCEPT !.stack = SetTop(n.stack, ArrayTakes(f, value, v))]
          [] f.fn = "object" ->
               [n EXCEPT !.stack = SetTop(n.stack, ObjectStores(f, hk, value, v)),
                         !.parser.buffer = IF f.key.bad_boys THEN kb ELSE @,
                         !.heap = IF v = "perl" /\ hv_exists(f.hv, hk)
                                  THEN SvREFCNT_dec(@, hv_fetch(f.hv, hk)) ELSE @]

(* `return x': the routine's frame goes and its caller takes the value. *)
Return(n, value, in, v) ==
    AfterValue([n EXCEPT !.stack = Pop(n.stack)], value, in, v)


-----------------------------------------------------------------------------
(* number (): one byte of the loop at number_start, and the conversion. *)

(* The conversion of lines 214-254 in a build with INT_MAX_DIGITS defined *)
(* as `digits'.                                                          *)
NumberValueWith(lex, f, lb, digits) ==
    IF f.dot \/ f.exp
    THEN IF strtod(lex).end = Len(lex) THEN newSVnv(strtod(lex).d) ELSE newSVpv(lex)
    ELSE IF Len(lex) < digits + (IF f.minus THEN 1 ELSE 0)
         THEN newSViv(IF f.minus THEN -f.guess ELSE f.guess)
         ELSE IF strtol(lex, lb).end = Len(lex) THEN newSViv(strtol(lex, lb).i)
              ELSE newSVpv(lex)

(* Mutant of NumberValue: `guess = -guess' left out. *)
NumberValue_noNegate(lex, f, lb) ==
    IF f.dot \/ f.exp
    THEN IF strtod(lex).end = Len(lex) THEN newSVnv(strtod(lex).d) ELSE newSVpv(lex)
    ELSE IF Len(lex) < INT_MAX_DIGITS + (IF f.minus THEN 1 ELSE 0)
         THEN newSViv(f.guess)
         ELSE IF strtol(lex, lb).end = Len(lex) THEN newSViv(strtol(lex, lb).i)
              ELSE newSVpv(lex)

(* The value of the lexeme, once isolated (lines 214-254). *)
NumberValue(lex, f, lb) ==
    IF f.dot \/ f.exp
    THEN IF strtod(lex).end = Len(lex) THEN newSVnv(strtod(lex).d) ELSE newSVpv(lex)
    ELSE IF Len(lex) < INT_MAX_DIGITS + (IF f.minus THEN 1 ELSE 0)
         THEN newSViv(IF f.minus THEN -f.guess ELSE f.guess)
         ELSE IF strtol(lex, lb).end = Len(lex) THEN newSViv(strtol(lex, lb).i)
              ELSE newSVpv(lex)

(* Mutant of NumberDigit: `zero = 1' left out. *)
NumberDigit_noZero(f, c) ==
    IF f.dot \/ f.exp THEN f
    ELSE IF c = "0"
         THEN (IF f.guess = 0 THEN f ELSE [f EXCEPT !.guess = Mul10Add(@, 0)])
         ELSE [f EXCEPT !.guess = Mul10Add(@, DigitVal(c))]

(* The digit cases: '0' (c = "0") and DIGIT19. *)
NumberDigit(f, c) ==
    IF f.dot \/ f.exp THEN f
    ELSE IF c = "0"
         THEN (IF f.guess = 0 THEN [f EXCEPT !.zero = TRUE]
               ELSE [f EXCEPT !.guess = Mul10Add(@, 0)])
         ELSE [f EXCEPT !.guess = Mul10Add(@, DigitVal(c))]

(* Mutant of number_start: the test `! exp' of the plus case left out. *)
number_start_plusAnywhere(n, in, lb, v) ==
    LET f == Top(n.stack)
        c == ByteAt(in, n.parser.end)
        e == n.parser.end + 1
        n1 == [n EXCEPT !.parser.end = e]
        again(g) == [n1 EXCEPT !.stack = SetTop(n.stack, g)]
        lex == Slice(in, f.start, e - 1)
    IN  CASE c = "." ->
               IF f.dot
               THEN failbadinput([n1 EXCEPT !.parser.bad_byte = e - 1],
                                 "Too many decimal points")
               ELSE again([f EXCEPT !.dot = TRUE])
          [] c = "+" ->
               IF f.plus
               THEN failbadinput([n1 EXCEPT !.parser.bad_byte = e - 1], "Double plus")
               ELSE again([f EXCEPT !.plus = TRUE])
          [] c = "-" ->
               IF f.exp
               THEN (IF f.expminus
                     THEN failbadinput([n1 EXCEPT !.parser.bad_type = "json_number",
                                                  !.parser.bad_byte = e - 1],
                                       "Double minus in exponent")
                     ELSE again([f EXCEPT !.expminus = TRUE]))
               ELSE (IF f.minus
                     THEN failbadinput([n1 EXCEPT !.parser.bad_type = "json_number",
                                                  !.parser.bad_beginning = f.start,
                                                  !.parser.bad_byte = e - 1],
                                       "Double minus")
                     ELSE again([f EXCEPT !.minus = TRUE]))
          [] c \in {"e", "E"} ->
               IF f.exp
               THEN failbadinput([n1 EXCEPT !.parser.bad_type = "json_number",
                                            !.parser.bad_beginning = f.start,
                                            !.parser.bad_byte = e - 1],
                                 "Doubled exponential")
               ELSE again([f EXCEPT !.exp = TRUE])
          [] c = "0" -> again(NumberDigit(f, c))
          [] c \in DIGIT19 ->
               IF ~f.dot /\ ~f.exp /\ f.zero
               THEN failbadinput([n1 EXCEPT !.parser.bad_byte = e - 1,
                                            !.parser.bad_type = "json_number",
                                            !.parser.bad_beginning = f.start],
                                 "leading 0 in number")
               ELSE again(NumberDigit(f, c))
          [] OTHER ->
               IF c = NUL /\ STRINGEND(e, in)
               THEN failbadinput([n1 EXCEPT !.parser.bad_type = "json_number",
                                            !.parser.bad_beginning = f.start,
                                            !.parser.error = "json_error_unexpected_end_of_input"],
                                 "Unexpected end of input")
               ELSE Return(Alloc([n1 EXCEPT !.parser.end = e - 1], v, 1),
                           IF v = "perl" THEN NumberValue(lex, f, lb) ELSE VOID, in, v)

(* Mutant of number_start: the test `dot' of the '.' case left out. *)
number_start_dotsUnchecked(n, in, lb, v) ==
    LET f == Top(n.stack)
        c == ByteAt(in, n.parser.end)
        e == n.parser.end + 1
        n1 == [n EXCEPT !.parser.end = e]
        again(g) == [n1 EXCEPT !.stack = SetTop(n.stack, g)]
        lex == Slice(in, f.start, e - 1)
    IN  CASE c = "." ->
               again([f EXCEPT !.dot = TRUE])
          [] c = "+" ->
               IF ~f.exp THEN failbadinput(n1, "Plus outside exponential")
               ELSE IF f.plus
               THEN failbadinput([n1 EXCEPT !.parser.bad_byte = e - 1], "Double plus")
               ELSE again([f EXCEPT !.plus = TRUE])
          [] c = "-" ->
               IF f.exp
               THEN (IF f.expminus
                     THEN failbadinput([n1 EXCEPT !.parser.bad_type = "json_number",
                                                  !.parser.bad_byte = e - 1],
                                       "Double minus in exponent")
                     ELSE again([f EXCEPT !.expminus = TRUE]))
               ELSE (IF f.minus
                     THEN failbadinput([n1 EXCEPT !.parser.bad_type = "json_number",
                                                  !.parser.bad_beginning = f.start,
                                                  !.parser.bad_byte = e - 1],
                                       "Double minus")
                     ELSE again([f EXCEPT !.minus = TRUE]))
          [] c \in {"e", "E"} ->
               IF f.exp
               THEN failbadinput([n1 EXCEPT !.parser.bad_type = "json_number",
                                            !.parser.bad_beginning = f.start,
                                            !.parser.bad_byte = e - 1],
                                 "Doubled exponential")
               ELSE again([f EXCEPT !.exp = TRUE])
          [] c = "0" -> again(NumberDigit(f, c))
          [] c \in DIGIT19 ->
               IF ~f.dot /\ ~f.exp /\ f.zero
               THEN failbadinput([n1 EXCEPT !.parser.bad_byte = e - 1,
                                            !.parser.bad_type = "json_number",
                                            !.parser.bad_beginning = f.start],
                                 "leading 0 in number")
               ELSE again(NumberDigit(f, c))
          [] OTHER ->
               IF c = NUL /\ STRINGEND(e, in)
               THEN failbadinput([n1 EXCEPT !.parser.bad_type = "json_number",
                                            !.parser.bad_beginning = f.start,
                                            !.parser.error = "json_error_unexpected_end_of_input"],
                                 "Unexpected end of input")
               ELSE Return(Alloc([n1 EXCEPT !.parser.end = e - 1], v, 1),
                           IF v = "perl" THEN NumberValue(lex, f, lb) ELSE VOID, in, v)

(* Mutant of number_start: `parser->end--' of the default case left out. *)
number_start_noPushBack(n, in, lb, v) ==
    LET f == Top(n.stack)
        c == ByteAt(in, n.parser.end)
        e == n.parser.end + 1
        n1 == [n EXCEPT !.parser.end = e]
        again(g) == [n1 EXCEPT !.stack = SetTop(n.stack, g)]
        lex == Slice(in, f.start, e - 1)
    IN  CASE c = "." ->
               IF f.dot
               THEN failbadinput([n1 EXCEPT !.parser.bad_byte = e - 1],
                                 "Too many decimal points")
               ELSE again([f EXCEPT !.dot = TRUE])
          [] c = "+" ->
               IF ~f.exp THEN failbadinput(n1, "Plus outside exponential")
               ELSE IF f.plus
               THEN failbadinput([n1 EXCEPT !.parser.bad_byte = e - 1], "Double plus")
               ELSE again([f EXCEPT !.plus = TRUE])
          [] c = "-" ->
               IF f.exp
               THEN (IF f.expminus
                     THEN failbadinput([n1 EXCEPT !.parser.bad_type = "json_number",
                                                  !.parser.bad_byte = e - 1],
                                       "Double minus in exponent")
                     ELSE again([f EXCEPT !.expminus = TRUE]))
               ELSE (IF f.minus
                     THEN failbadinput([n1 EXCEPT !.parser.bad_type = "json_number",
                                                  !.parser.bad_beginning = f.start,
                                                  !.parser.bad_byte = e - 1],
                                       "Double minus")
                     ELSE again([f EXCEPT !.minus = TRUE]))
          [] c \in {"e", "E"} ->
               IF f.exp
               THEN failbadinput([n1 EXCEPT !.parser.bad_type = "json_number",
                                            !.parser.bad_beginning = f.start,
                                            !.parser.bad_byte = e - 1],
                                 "Doubled exponential")
               ELSE again([f EXCEPT !.exp = TRUE])
          [] c = "0" -> again(NumberDigit(f, c))
          [] c \in DIGIT19 ->
               IF ~f.dot /\ ~f.exp /\ f.zero
               THEN failbadinput([n1 EXCEPT !.parser.bad_byte = e - 1,
                                            !.parser.bad_type = "json_number",
                                            !.parser.bad_beginning = f.start],
                                 "leading 0 in number")
               ELSE again(NumberDigit(f, c))
          [] OTHER ->
               IF c = NUL /\ STRINGEND(e, in)
               THEN failbadinput([n1 EXCEPT !.parser.bad_type = "json_number",
                                            !.parser.bad_beginning = f.start,
                                            !.parser.error = "json_error_unexpected_end_of_input"],
                                 "Unexpected end of input")
               ELSE Return(Alloc(n1, v, 1),
                           IF v = "perl" THEN NumberValue(lex, f, lb) ELSE VOID, in, v)

number_start(n, in, lb, v) ==
    LET f == Top(n.stack)
        c == ByteAt(in, n.parser.end)
        e == n.parser.end + 1
        n1 == [n EXCEPT !.parser.end = e]
        again(g) == [n1 EXCEPT !.stack = SetTop(n.stack, g)]
        lex == Slice(in, f.start, e - 1)
    IN  CASE c = "." ->
               IF f.dot
               THEN failbadinput([n1 EXCEPT !.parser.bad_byte = e - 1],
                                 "Too many decimal points")
               ELSE again([f EXCEPT !.dot = TRUE])
          [] c = "+" ->
               IF ~f.exp THEN failbadinput(n1, "Plus outside exponential")
               ELSE IF f.plus
               THEN failbadinput([n1 EXCEPT !.parser.bad_byte = e - 1], "Double plus")
               ELSE again([f EXCEPT !.plus = TRUE])
          [] c = "-" ->
               IF f.exp
               THEN (IF f.expminus
                     THEN failbadinput([n1 EXCEPT !.parser.bad_type = "json_number",
                                                  !.parser.bad_byte = e - 1],
                                       "Double minus in exponent")
                     ELSE again([f EXCEPT !.expminus = TRUE]))
               ELSE (IF f.minus
                     THEN failbadinput([n1 EXCEPT !.parser.bad_type = "json_number",
                                                  !.parser.bad_beginning = f.start,
                                                  !.parser.bad_byte = e - 1],
                                       "Double minus")
                     ELSE again([f EXCEPT !.minus = TRUE]))
          [] c \in {"e", "E"} ->
               IF f.exp
               THEN failbadinput([n1 EXCEPT !.parser.bad_type = "json_number",
                                            !.parser.bad_beginning = f.start,
                                            !.parser.bad_byte = e - 1],
                                 "Doubled exponential")
               ELSE again([f EXCEPT !.exp = TRUE])
          [] c = "0" -> again(NumberDigit(f, c))
          [] c \in DIGIT19 ->
               IF ~f.dot /\ ~f.exp /\ f.zero
               THEN failbadinput([n1 EXCEPT !.parser.bad_byte = e - 1,
                                            !.parser.bad_type = "json_number",
                                            !.parser.bad_beginning = f.start],
                                 "leading 0 in number")
               ELSE again(NumberDigit(f, c))
          [] OTHER ->
               IF c = NUL /\ STRINGEND(e, in)
               THEN failbadinput([n1 EXCEPT !.parser.bad_type = "json_number",
                                            !.parser.bad_beginning = f.start,
                                            !.parser.error = "json_error_unexpected_end_of_input"],
                                 "Unexpected end of input")
               ELSE Return(Alloc([n1 EXCEPT !.parser.end = e - 1], v, 1),
                           IF v = "perl" THEN NumberValue(lex, f, lb) ELSE VOID, in, v)


-----------------------------------------------------------------------------
(* literal (), and the PARSE switch shared by array () and object (). *)

(* How many of the bytes at offset e match `rest', compared in turn with *)
(* `* parser->end++ == ...' until one differs.                           *)
RECURSIVE Matched(_, _, _)
Matched(in, e, rest) ==
    IF rest = <<>> \/ ByteAt(in, e) # rest[1] THEN 0
    ELSE 1 + Matched(in, e + 1, Tail(rest))

(* Mutant of LiteralRest: the last comparison of `false' left out. *)
LiteralRest_shortFalse(c) ==
    CASE c = "t" -> <<"r", "u", "e">>
      [] c = "n" -> <<"u", "l", "l">>
      [] c = "f" -> <<"a", "l", "s">>

LiteralRest(c) ==
    CASE c = "t" -> <<"r", "u", "e">>
      [] c = "n" -> <<"u", "l", "l">>
      [] c = "f" -> <<"a", "l", "s", "e">>

LiteralValue(c) ==
    CASE c = "t" -> json_true [] c = "n" -> json_null [] c = "f" -> json_false

SvREFCNT_inc(n, sv) == [n EXCEPT !.heap.rc[sv.t] = @ + 1]

(* Mutant of LiteralRef: SvREFCNT_inc outside the #ifdef. *)
LiteralRef_always(n, sv, v) == SvREFCNT_inc(n, sv)

(* The count goes up under PERLING only (lines 348, 361, 376). *)
LiteralRef(n, sv, v) == IF v = "perl" THEN SvREFCNT_inc(n, sv) ELSE n

(* failbug: an internal fault, not an error of the input. *)
failbug(n, m) == [n EXCEPT !.status = "bug", !.msg = m]

(* Mutant of literal: a mismatch on the NUL that ends the buffer is *)
(* reported as the end of the input.                               *)
literal_endOfInput(n, c, in, v) ==
    LET e == n.parser.end
        start == e - 1
        rest == LiteralRest(c)
        k == Matched(in, e, rest)
    IN  IF k = Len(rest)
        THEN AfterValue(LiteralRef([n EXCEPT !.parser.end = e + k], LiteralValue(c), v),
                        IF v = "perl" THEN LiteralValue(c) ELSE VOID, in, v)
        ELSE failbadinput([n EXCEPT !.parser.end = e + k + 1,
                                    !.parser.bad_byte = e + k,
                                    !.parser.bad_type = "json_literal",
                                    !.parser.error =
                                        IF STRINGEND(e + k + 1, in)
                                        THEN "json_error_unexpected_end_of_input"
                                        ELSE "json_error_bad_literal",
                                    !.parser.bad_beginning = start],
                          "Unparseable character in literal")

(* Mutant of literal: the comparisons joined without short circuit, so *)
(* that every byte of the rest is read whether the one before matched. *)
literal_eagerCompare(n, c, in, v) ==
    LET e == n.parser.end
        start == e - 1
        rest == LiteralRest(c)
        k == Matched(in, e, rest)
    IN  IF k = Len(rest)
        THEN AfterValue(LiteralRef([n EXCEPT !.parser.end = e + k], LiteralValue(c), v),
                        IF v = "perl" THEN LiteralValue(c) ELSE VOID, in, v)
        ELSE failbadinput([n EXCEPT !.parser.end = e + Len(rest),
                                    !.parser.bad_byte = e + k,
                                    !.parser.bad_type = "json_literal",
                                    !.parser.error = "json_error_bad_literal",
                                    !.parser.bad_beginning = start],
                          "Unparseable character in literal")

literal(n, c, in, v) ==
    LET e == n.parser.end
        start == e - 1
        rest == LiteralRest(c)
        k == Matched(in, e, rest)
    IN  IF c \notin {"t", "n", "f"}
        THEN failbug(n, "Attempt to make a literal starting with '%02X'")
        ELSE IF k = Len(rest)
        THEN AfterValue(LiteralRef([n EXCEPT !.parser.end = e + k], LiteralValue(c), v),
                        IF v = "perl" THEN LiteralValue(c) ELSE VOID, in, v)
        ELSE failbadinput([n EXCEPT !.parser.end = e + k + 1,
                                    !.parser.bad_byte = e + k,
                                    !.parser.bad_type = "json_literal",
                                    !.parser.error = "json_error_bad_literal",
                                    !.parser.bad_beginning = start],
                          "Unparseable character in literal")

ValueStartBytes == {"\"", "-", "{", "[", "f", "n", "t"} \cup DIGIT

(* Mutant of PARSE: the case '[' run into the cases of the literals. *)
PARSE_arrayAsLiteral(n, c, in, v) ==
    LET e == n.parser.end
    IN  CASE c = "\"" -> [n EXCEPT !.stack = Append(@, StringFrame(e))]
          [] c = "-" \/ c \in DIGIT ->
               [n EXCEPT !.parser.end = e - 1, !.stack = Append(@, NumberFrame(e - 1))]
          [] c = "{" ->
               Alloc([n EXCEPT !.stack = Append(@, ObjectFrame(e - 1, n.parser.unicode))],
                     v, 1)
          [] c \in {"[", "f", "n", "t"} -> literal(n, c, in, v)

(* PARSE, for a byte c that starts a value, read by NEXTBYTE already. *)
PARSE(n, c, in, v) ==
    LET e == n.parser.end
    IN  CASE c = "\"" -> [n EXCEPT !.stack = Append(@, StringFrame(e))]
          [] c = "-" \/ c \in DIGIT ->
               [n EXCEPT !.parser.end = e - 1, !.stack = Append(@, NumberFrame(e - 1))]
          [] c = "{" ->
               Alloc([n EXCEPT !.stack = Append(@, ObjectFrame(e - 1, n.parser.unicode))],
                     v, 1)
          [] c = "[" -> Alloc([n EXCEPT !.stack = Append(@, ArrayFrame(e - 1))], v, 1)
          [] c \in {"f", "n", "t"} -> literal(n, c, in, v)

-----------------------------------------------------------------------------
(* string (): one byte of the fast loop; get_string on a backslash. *)

ILLEGALBYTE(n, e) ==
    failbadinput([n EXCEPT !.parser.bad_byte = e - 1,
                           !.parser.error = "json_error_illegal_byte"],
                 "Illegal byte value")

(* SvUTF8_on and the reset of force_unicode, under PERLING (324-329). *)
string_done(n, str, in, v) ==
    LET u == n.parser.unicode \/ n.parser.force_unicode
    IN  IF v = "perl"
        THEN Return(Alloc(IF u THEN [n EXCEPT !.parser.force_unicode = FALSE] ELSE n, v, 1),
                    IF u THEN SvUTF8_on(str) ELSE str, in, v)
        ELSE Return(n, VOID, in, v)

(* Mutant of string_loop: the BADBYTES case left out of the switch. *)
string_loop_noBadBytes(n, in, v) ==
    LET f == Top(n.stack)
        c == ByteAt(in, n.parser.end)
        e == n.parser.end + 1
        n1 == [n EXCEPT !.parser.end = e]
        r == get_string(in, f.start)
    IN  CASE c = "\"" ->
               string_done(n1, newSVpv(Slice(in, f.start, f.start + f.len)), in, v)
          [] c = "\\" ->
               IF r.ok
               THEN string_done([n1 EXCEPT !.parser.end = r.end,
                                           !.parser.buffer = r.buf,
                                           !.parser.force_unicode = @ \/ r.force_unicode],
                                newSVpv(r.buf), in, v)
               ELSE failbadinput([n1 EXCEPT !.parser.end = r.bad_byte + 1,
                                            !.parser.bad_byte = r.bad_byte,
                                            !.parser.bad_type = "json_string",
                                            !.parser.bad_beginning = f.start,
                                            !.parser.error = r.error],
                                 "get_string")
          [] c = NUL ->
               IF STRINGEND(e, in)
               THEN failbadinput([n1 EXCEPT !.parser.bad_type = "json_string",
                                            !.parser.error = "json_error_unexpected_end_of_input",
                                            !.parser.bad_beginning = f.start],
                                 "End of input reading string")
               ELSE ILLEGALBYTE([n1 EXCEPT !.parser.bad_type = "json_string",
                                           !.parser.error = "json_error_illegal_byte"], e)
          [] c \notin {"\"", "\\", NUL} -> [n1 EXCEPT !.stack = SetTop(n.stack, [f EXCEPT !.len = @ + 1])]

(* Mutant of string_loop: the STRINGEND test after the loop left out. *)
string_loop_noStringEnd(n, in, v) ==
    LET f == Top(n.stack)
        c == ByteAt(in, n.parser.end)
        e == n.parser.end + 1
        n1 == [n EXCEPT !.parser.end = e]
        r == get_string(in, f.start)
    IN  CASE c = "\"" ->
               string_done(n1, newSVpv(Slice(in, f.start, f.start + f.len)), in, v)
          [] c = "\\" ->
               IF r.ok
               THEN string_done([n1 EXCEPT !.parser.end = r.end,
                                           !.parser.buffer = r.buf,
                                           !.parser.force_unicode = @ \/ r.force_unicode],
                                newSVpv(r.buf), in, v)
               ELSE failbadinput([n1 EXCEPT !.parser.end = r.bad_byte + 1,
                                            !.parser.bad_byte = r.bad_byte,
                                            !.parser.bad_type = "json_string",
                                            !.parser.bad_beginning = f.start,
                                            !.parser.error = r.error],
                                 "get_string")
          [] c \in BADBYTES -> ILLEGALBYTE(n1, e)
          [] c = NUL ->
               IF FALSE
               THEN failbadinput([n1 EXCEPT !.parser.bad_type = "json_string",
                                            !.parser.error = "json_error_unexpected_end_of_input",
                                            !.parser.bad_beginning = f.start],
                                 "End of input reading string")
               ELSE ILLEGALBYTE([n1 EXCEPT !.parser.bad_type = "json_string",
                                           !.parser.error = "json_error_illegal_byte"], e)
          [] OTHER -> [n1 EXCEPT !.stack = SetTop(n.stack, [f EXCEPT !.len = @ + 1])]

(* Mutant of string_loop: `parser->end = start' at bad_boys left out. *)
string_loop_noRestart(n, in, v) ==
    LET f == Top(n.stack)
        c == ByteAt(in, n.parser.end)
        e == n.parser.end + 1
        n1 == [n EXCEPT !.parser.end = e]
        r == get_string(in, e)
    IN  CASE c = "\"" ->
               string_done(n1, newSVpv(Slice(in, f.start, f.start + f.len)), in, v)
          [] c = "\\" ->
               IF r.ok
               THEN string_done([n1 EXCEPT !.parser.end = r.end,
                                           !.parser.buffer = r.buf,
                                           !.parser.force_unicode = @ \/ r.force_unicode],
                                newSVpv(r.buf), in, v)
               ELSE failbadinput([n1 EXCEPT !.parser.end = r.bad_byte + 1,
                                            !.parser.bad_byte = r.bad_byte,
                                            !.parser.bad_type = "json_string",
                                            !.parser.bad_beginning = f.start,
                                            !.parser.error = r.error],
                                 "get_string")
          [] c \in BADBYTES -> ILLEGALBYTE(n1, e)
          [] c = NUL ->
               IF STRINGEND(e, in)
               THEN failbadinput([n1 EXCEPT !.parser.bad_type = "json_string",
                                            !.parser.error = "json_error_unexpected_end_of_input",
                                            !.parser.bad_beginning = f.start],
                                 "End of input reading string")
               ELSE ILLEGALBYTE([n1 EXCEPT !.parser.bad_type = "json_string",
                                           !.parser.error = "json_error_illegal_byte"], e)
          [] OTHER -> [n1 EXCEPT !.stack = SetTop(n.stack, [f EXCEPT !.len = @ + 1])]

string_loop(n, in, v) ==
    LET f == Top(n.stack)
        c == ByteAt(in, n.parser.end)
        e == n.parser.end + 1
        n1 == [n EXCEPT !.parser.end = e]
        r == get_string(in, f.start)
    IN  CASE c = "\"" ->
               string_done(n1, newSVpv(Slice(in, f.start, f.start + f.len)), in, v)
          [] c = "\\" ->
               IF r.ok
               THEN string_done([n1 EXCEPT !.parser.end = r.end,
                                           !.parser.buffer = r.buf,
                                           !.parser.force_unicode = @ \/ r.force_unicode],
                                newSVpv(r.buf), in, v)
               ELSE failbadinput([n1 EXCEPT !.parser.end = r.bad_byte + 1,
                                            !.parser.bad_byte = r.bad_byte,
                                            !.parser.bad_type = "json_string",
                                            !.parser.bad_beginning = f.start,
                                            !.parser.error = r.error],
                                 "get_string")
          [] c \in BADBYTES -> ILLEGALBYTE(n1, e)
          [] c = NUL ->
               IF STRINGEND(e, in)
               THEN failbadinput([n1 EXCEPT !.parser.bad_type = "json_string",
                                            !.parser.error = "json_error_unexpected_end_of_input",
                                            !.parser.bad_beginning = f.start],
                                 "End of input reading string")
               ELSE ILLEGALBYTE([n1 EXCEPT !.parser.bad_type = "json_string",
                                           !.parser.error = "json_error_illegal_byte"], e)
          [] OTHER -> [n1 EXCEPT !.stack = SetTop(n.stack, [f EXCEPT !.len = @ + 1])]


-----------------------------------------------------------------------------
(* array (): the switches at array_start and array_middle. *)

(* CHECKCOMMA, tripped when looking at ']' or '}' after a comma. *)
CHECKCOMMA(n, f, type, e) ==
    failbadinput([n EXCEPT !.parser.bad_beginning = f.start,
                           !.parser.error = "json_error_trailing_comma",
                           !.parser.bad_type = type,
                           !.parser.bad_byte = e - 2],
                 "Illegal trailing comma")

(* Mutant of array_end: the ']' handed back to the caller, as number () *)
(* hands back the byte that ended it.                                   *)
array_end_pushBack(n, f, in, v) ==
    Return(Alloc([n EXCEPT !.parser.end = @ - 1], v, 1),
           IF v = "perl" THEN newRV_av(f.av) ELSE VOID, in, v)

array_end(n, f, in, v) ==
    Return(Alloc(n, v, 1), IF v = "perl" THEN newRV_av(f.av) ELSE VOID, in, v)

array_start(n, in, v) ==
    LET f == Top(n.stack)
        c == ByteAt(in, n.parser.end)
        e == n.parser.end + 1
        n1 == [n EXCEPT !.parser.end = e]
    IN  CASE c \in WHITESPACE -> n1
          [] c \in ValueStartBytes -> PARSE(n1, c, in, v)
          [] c = "]" ->
               IF f.comma THEN CHECKCOMMA(n1, f, "json_array", e)
               ELSE array_end(n1, f, in, v)
          [] c = "," ->
               failbadinput([n1 EXCEPT !.parser.bad_byte = e - 1,
                                       !.parser.expected = {VALUE_START, XWHITESPACE, ARRAY_END},
                                       !.parser.bad_type = "json_array",
                                       !.parser.bad_beginning = f.start],
                            "Stray comma")
          [] OTHER ->
               IF c = NUL /\ STRINGEND(e, in)
               THEN failbadinput([n1 EXCEPT !.parser.bad_type = "json_array",
                                            !.parser.error = "json_error_unexpected_end_of_input"],
                                 "Unexpected end of input")
               ELSE failbadinput([n1 EXCEPT !.parser.bad_byte = e - 1,
                                            !.parser.bad_type = "json_array",
                                            !.parser.expected = {ARRAY_END, VALUE_START},
                                            !.parser.bad_beginning = f.start],
                                 "Unknown character")

(* Mutant of array_middle: whitespace sends control to a label behind *)
(* NEXTBYTE, so the same byte is looked at again.                      *)
array_middle_wsNoAdvance(n, in, v) ==
    LET f == Top(n.stack)
        c == ByteAt(in, n.parser.end)
        e == n.parser.end + 1
        n1 == [n EXCEPT !.parser.end = e]
    IN  CASE c \in WHITESPACE -> n
          [] c = "," -> [n1 EXCEPT !.stack = SetTop(n.stack, [f EXCEPT !.pc = "array_start"])]
          [] c = "]" -> array_end(n1, f, in, v)
          [] OTHER ->
               IF c = NUL /\ STRINGEND(e, in)
               THEN failbadinput([n1 EXCEPT !.parser.bad_type = "json_array",
                                            !.parser.error = "json_error_unexpected_end_of_input"],
                                 "Unexpected end of input")
               ELSE failbadinput([n1 EXCEPT !.parser.expected = {XWHITESPACE, COMMA, ARRAY_END},
                                            !.parser.bad_type = "json_array",
                                            !.parser.bad_byte = e - 1,
                                            !.parser.error = "json_error_unexpected_character"],
                                 "Unknown character after array value")

(* Mutant of array_middle: '}' taken as ']' is. *)
array_middle_closeOnBrace(n, in, v) ==
    LET f == Top(n.stack)
        c == ByteAt(in, n.parser.end)
        e == n.parser.end + 1
        n1 == [n EXCEPT !.parser.end = e]
    IN  CASE c \in WHITESPACE -> n1
          [] c = "," -> [n1 EXCEPT !.stack = SetTop(n.stack, [f EXCEPT !.pc = "array_start"])]
          [] c \in {"]", "}"} -> array_end(n1, f, in, v)
          [] OTHER ->
               IF c = NUL /\ STRINGEND(e, in)
               THEN failbadinput([n1 EXCEPT !.parser.bad_type = "json_array",
                                            !.parser.error = "json_error_unexpected_end_of_input"],
                                 "Unexpected end of input")
               ELSE failbadinput([n1 EXCEPT !.parser.expected = {XWHITESPACE, COMMA, ARRAY_END},
                                            !.parser.bad_type = "json_array",
                                            !.parser.bad_byte = e - 1,
                                            !.parser.error = "json_error_unexpected_character"],
                                 "Unknown character after array value")

array_middle(n, in, v) ==
    LET f == Top(n.stack)
        c == ByteAt(in, n.parser.end)
        e == n.parser.end + 1
        n1 == [n EXCEPT !.parser.end = e]
    IN  CASE c \in WHITESPACE -> n1
          [] c = "," -> [n1 EXCEPT !.stack = SetTop(n.stack, [f EXCEPT !.pc = "array_start"])]
          [] c = "]" -> array_end(n1, f, in, v)
          [] OTHER ->
               IF c = NUL /\ STRINGEND(e, in)
               THEN failbadinput([n1 EXCEPT !.parser.bad_type = "json_array",
                                            !.parser.error = "json_error_unexpected_end_of_input"],
                                 "Unexpected end of input")
               ELSE failbadinput([n1 EXCEPT !.parser.expected = {XWHITESPACE, COMMA, ARRAY_END},
                                            !.parser.bad_type = "json_array",
                                            !.parser.bad_byte = e - 1,
                                            !.parser.error = "json_error_unexpected_character"],
                                 "Unknown character after array value")

-----------------------------------------------------------------------------
(* object (): the switches at hash_start, hash_next and hash_value. *)

(* get_key_string: the key from the cursor up to its closing quote. *)
get_key_string(n, f, in) ==
    LET e == n.parser.end
        r == get_string(in, e)
    IN  IF r.ok
        THEN [n EXCEPT !.parser.end = r.end,
                       !.stack = SetTop(n.stack,
                           [f EXCEPT !.comma = FALSE, !.pc = "hash_next",
                                     !.key = [start |-> e, length |-> r.end - 1 - e,
                                              bad_boys |-> HasEscape(in, e, r.end - 1)]])]
        ELSE failbadinput([n EXCEPT !.parser.end = r.bad_byte + 1,
                                    !.parser.bad_byte = r.bad_byte,
                                    !.parser.bad_type = "json_string",
                                    !.parser.bad_beginning = e,
                                    !.parser.error = r.error],
                          "get_key_string")

hash_end(n, f, in, v) ==
    Return(Alloc([n EXCEPT !.lastobj = [hv |-> f.hv, stores |-> f.stores]], v, 1),
           IF v = "perl" THEN newRV_hv(f.hv) ELSE VOID, in, v)

(* Mutant of hash_start: CHECKCOMMA left out of the '}' case. *)
hash_start_noCheckComma(n, in, v) ==
    LET f == Top(n.stack)
        c == ByteAt(in, n.parser.end)
        e == n.parser.end + 1
        n1 == [n EXCEPT !.parser.end = e]
    IN  CASE c \in WHITESPACE -> n1
          [] c = "}" ->
               hash_end(n1, f, in, v)
          [] c = "\"" ->
               IF f.middle
               THEN failbadinput([n1 EXCEPT !.parser.bad_byte = e - 1],
                                 "Missing comma (,) after object value")
               ELSE get_key_string(n1, f, in)
          [] c = "," ->
               IF f.middle
               THEN [n1 EXCEPT !.stack = SetTop(n.stack,
                                   [f EXCEPT !.middle = FALSE, !.comma = TRUE])]
               ELSE failbadinput([n1 EXCEPT !.parser.bad_byte = e - 1,
                                            !.parser.error = "json_error_stray_comma",
                                            !.parser.expected = {XWHITESPACE, STRING_START},
                                            !.parser.bad_type = "json_object",
                                            !.parser.bad_beginning = f.start],
                                 "Stray comma")
          [] OTHER ->
               IF c = NUL /\ STRINGEND(e, in)
               THEN failbadinput([n1 EXCEPT !.parser.error = "json_error_unexpected_end_of_input",
                                            !.parser.bad_type = "json_object",
                                            !.parser.bad_beginning = f.start],
                                 "Unexpected end of input")
               ELSE failbadinput([n1 EXCEPT !.parser.bad_byte = e - 1,
                                            !.parser.error = "json_error_unexpected_character",
                                            !.parser.expected =
                                                {XWHITESPACE, STRING_START}
                                                \cup (IF f.middle THEN {COMMA} ELSE {}),
                                            !.parser.bad_type = "json_object",
                                            !.parser.bad_beginning = f.start],
                                 "Unknown character in object key")

(* Mutant of hash_start: the test `middle' of the '"' case left out. *)
hash_start_noMissingComma(n, in, v) ==
    LET f == Top(n.stack)
        c == ByteAt(in, n.parser.end)
        e == n.parser.end + 1
        n1 == [n EXCEPT !.parser.end = e]
    IN  CASE c \in WHITESPACE -> n1
          [] c = "}" ->
               IF f.comma THEN CHECKCOMMA(n1, f, "json_object", e)
               ELSE hash_end(n1, f, in, v)
          [] c = "\"" ->
               get_key_string(n1, f, in)
          [] c = "," ->
               IF f.middle
               THEN [n1 EXCEPT !.stack = SetTop(n.stack,
                                   [f EXCEPT !.middle = FALSE, !.comma = TRUE])]
               ELSE failbadinput([n1 EXCEPT !.parser.bad_byte = e - 1,
                                            !.parser.error = "json_error_stray_comma",
                                            !.parser.expected = {XWHITESPACE, STRING_START},
                                            !.parser.bad_type = "json_object",
                                            !.parser.bad_beginning = f.start],
                                 "Stray comma")
          [] OTHER ->
               IF c = NUL /\ STRINGEND(e, in)
               THEN failbadinput([n1 EXCEPT !.parser.error = "json_error_unexpected_end_of_input",
                                            !.parser.bad_type = "json_object",
                                            !.parser.bad_beginning = f.start],
                                 "Unexpected end of input")
               ELSE failbadinput([n1 EXCEPT !.parser.bad_byte = e - 1,
                                            !.parser.error = "json_error_unexpected_character",
                                            !.parser.expected =
                                                {XWHITESPACE, STRING_START}
                                                \cup (IF f.middle THEN {COMMA} ELSE {}),
                                            !.parser.bad_type = "json_object",
                                            !.parser.bad_beginning = f.start],
                                 "Unknown character in object key")

(* Mutant of hash_start: `middle = 0' left out of the ',' case. *)
hash_start_commaKeepsMiddle(n, in, v) ==
    LET f == Top(n.stack)
        c == ByteAt(in, n.parser.end)
        e == n.parser.end + 1
        n1 == [n EXCEPT !.parser.end = e]
    IN  CASE c \in WHITESPACE -> n1
          [] c = "}" ->
               IF f.comma THEN CHECKCOMMA(n1, f, "json_object", e)
               ELSE hash_end(n1, f, in, v)
          [] c = "\"" ->
               IF f.middle
               THEN failbadinput([n1 EXCEPT !.parser.bad_byte = e - 1],
                                 "Missing comma (,) after object value")
               ELSE get_key_string(n1, f, in)
          [] c = "," ->
               IF f.middle
               THEN [n1 EXCEPT !.stack = SetTop(n.stack,
                                   [f EXCEPT !.comma = TRUE])]
               ELSE failbadinput([n1 EXCEPT !.parser.bad_byte = e - 1,
                                            !.parser.error = "json_error_stray_comma",
                                            !.parser.expected = {XWHITESPACE, STRING_START},
                                            !.parser.bad_type = "json_object",
                                            !.parser.bad_beginning = f.start],
                                 "Stray comma")
          [] OTHER ->
               IF c = NUL /\ STRINGEND(e, in)
               THEN failbadinput([n1 EXCEPT !.parser.error = "json_error_unexpected_end_of_input",
                                            !.parser.bad_type = "json_object",
                                            !.parser.bad_beginning = f.start],
                                 "Unexpected end of input")
               ELSE failbadinput([n1 EXCEPT !.parser.bad_byte = e - 1,
                                            !.parser.error = "json_error_unexpected_character",
                                            !.parser.expected =
                                                {XWHITESPACE, STRING_START}
                                                \cup (IF f.middle THEN {COMMA} ELSE {}),
                                            !.parser.bad_type = "json_object",
                                            !.parser.bad_beginning = f.start],
                                 "Unknown character in object key")

hash_start(n, in, v) ==
    LET f == Top(n.stack)
        c == ByteAt(in, n.parser.end)
        e == n.parser.end + 1
        n1 == [n EXCEPT !.parser.end = e]
    IN  CASE c \in WHITESPACE -> n1
          [] c = "}" ->
               IF f.comma THEN CHECKCOMMA(n1, f, "json_object", e)
               ELSE hash_end(n1, f, in, v)
          [] c = "\"" ->
               IF f.middle
               THEN failbadinput([n1 EXCEPT !.parser.bad_byte = e - 1],
                                 "Missing comma (,) after object value")
               ELSE get_key_string(n1, f, in)
          [] c = "," ->
               IF f.middle
               THEN [n1 EXCEPT !.stack = SetTop(n.stack,
                                   [f EXCEPT !.middle = FALSE, !.comma = TRUE])]
               ELSE failbadinput([n1 EXCEPT !.parser.bad_byte = e - 1,
                                            !.parser.error = "json_error_stray_comma",
                                            !.parser.expected = {XWHITESPACE, STRING_START},
                                            !.parser.bad_type = "json_object",
                                            !.parser.bad_beginning = f.start],
                                 "Stray comma")
          [] OTHER ->
               IF c = NUL /\ STRINGEND(e, in)
               THEN failbadinput([n1 EXCEPT !.parser.error = "json_error_unexpected_end_of_input",
                                            !.parser.bad_type = "json_object",
                                            !.parser.bad_beginning = f.start],
                                 "Unexpected end of input")
               ELSE failbadinput([n1 EXCEPT !.parser.bad_byte = e - 1,
                                            !.parser.error = "json_error_unexpected_character",
                                            !.parser.expected =
                                                {XWHITESPACE, STRING_START}
                                                \cup (IF f.middle THEN {COMMA} ELSE {}),
                                            !.parser.bad_type = "json_object",
                                            !.parser.bad_beginning = f.start],
                                 "Unknown character in object key")


hash_next(n, in, v) ==
    LET f == Top(n.stack)
        c == ByteAt(in, n.parser.end)
        e == n.parser.end + 1
        n1 == [n EXCEPT !.parser.end = e]
    IN  CASE c \in WHITESPACE -> n1
          [] c = ":" ->
               [n1 EXCEPT !.stack = SetTop(n.stack,
                              [f EXCEPT !.middle = TRUE, !.pc = "hash_value"])]
          [] OTHER ->
               IF c = NUL /\ STRINGEND(e, in)
               THEN failbadinput([n1 EXCEPT !.parser.bad_byte = e - 1,
                                            !.parser.error = "json_error_unexpected_end_of_input",
                                            !.parser.expected = {XWHITESPACE, VALUE_SEPARATOR},
                                            !.parser.bad_type = "json_object",
                                            !.parser.bad_beginning = f.start],
                                 "Unexpected end of input after object key")
               ELSE failbadinput([n1 EXCEPT !.parser.bad_byte = e - 1,
                                            !.parser.error = "json_error_unexpected_character",
                                            !.parser.expected =
                                                {XWHITESPACE, VALUE_SEPARATOR, OBJECT_END},
                                            !.parser.bad_type = "json_object",
                                            !.parser.bad_beginning = f.start],
                                 "Unknown character after object key")

hash_value(n, in, v) ==
    LET f == Top(n.stack)
        c == ByteAt(in, n.parser.end)
        e == n.parser.end + 1
        n1 == [n EXCEPT !.parser.end = e]
    IN  CASE c \in WHITESPACE -> n1
          [] c \in ValueStartBytes -> PARSE(n1, c, in, v)
          [] OTHER ->
               IF c = NUL /\ STRINGEND(e, in)
               THEN failbadinput([n1 EXCEPT !.parser.expected = {XWHITESPACE, VALUE_START},
                                            !.parser.bad_type = "json_object",
                                            !.parser.error = "json_error_unexpected_end_of_input"],
                                 "Unexpected end of input")
               ELSE failbadinput([n1 EXCEPT !.parser.bad_byte = e - 1,
                                            !.parser.error = "json_error_unexpected_character",
                                            !.parser.expected = {XWHITESPACE, VALUE_START},
                                            !.parser.bad_type = "json_object"],
                                 "Unknown character in object value")

-----------------------------------------------------------------------------
(* The entry point: leading whitespace, one value, trailing whitespace. *)

parse_start(n, in, v) ==
    LET c == ByteAt(in, n.parser.end)
        e == n.parser.end + 1
        n1 == [n EXCEPT !.parser.end = e]
    IN  CASE c \in WHITESPACE -> n1
          [] c \in ValueStartBytes -> PARSE(n1, c, in, v)
          [] OTHER ->
               IF c = NUL /\ STRINGEND(e, in)
               THEN [n1 EXCEPT !.status = "empty"]
               ELSE failbadinput([n1 EXCEPT !.parser.bad_byte = e - 1,
                                            !.parser.error = "json_error_unexpected_character",
                                            !.parser.expected = {XWHITESPACE, VALUE_START},
                                            !.parser.bad_type = "json_initial_state",
                                            !.parser.bad_beginning = 0],
                                 "Unexpected character parsing initial state")

check_end(n, in, v) ==
    LET c == ByteAt(in, n.parser.end)
        e == n.parser.end + 1
        n1 == [n EXCEPT !.parser.end = e]
    IN  CASE c \in WHITESPACE -> n1
          [] OTHER ->
               IF c = NUL /\ STRINGEND(e, in)
               THEN [n1 EXCEPT !.status = "ok"]
               ELSE failbadinput([n1 EXCEPT !.parser.bad_byte = e - 1,
                                            !.parser.error = "json_error_unexpected_character",
                                            !.parser.expected = {XWHITESPACE},
                                            !.parser.bad_type = "json_initial_state",
                                            !.parser.bad_beginning = 0],
                                 "Trailing content after value")


-----------------------------------------------------------------------------
(* The inputs: every concatenation of a few fragments, and whole documents. *)

MaxFrags == 4

MaxNumLen == 4

MaxArrFrags == 5

MaxObjFrags == 4

MaxLitFrags == 3

MaxStrFrags == 4

MaxValidFrags == 3

MaxKeyFrags == 3

RECURSIVE Cat(_)
Cat(ss) == IF ss = <<>> THEN <<>> ELSE ss[1] \o Cat(Tail(ss))

Docs(frags, k) == {Cat(ss) : ss \in UNION {[1 .. j -> frags] : j \in 0 .. k}}

Range(f) == {f[i] : i \in DOMAIN f}

CoreDocs ==
    { <<" ", "{", "\"", "a", "\"", " ", ":", "[", "1", ",", "\"", "s", "\"", " ", "]", "}", " ">>,
      <<"{", "\"", "\\", "n", "\"", ":", "t", "r", "u", "e", ",", "\"", "k", "\"", ":", "-", "2", ".", "5", "}">>,
      <<"[", "\"", "\\", "u", "0", "0", "e", "9", "\"", ",", "n", "u", "l", "l", "]">> }

GenFrags ==
    { <<"[">>, <<"]">>, <<"{">>, <<"}">>, <<",">>, <<":">>, <<" ">>,
      <<"\"", "a", "\"">>, <<"1">>, <<"t", "r", "u", "e">>, <<"f", "a", "l">> }

NumBytes == { <<"0">>, <<"1">>, <<"-">>, <<".">>, <<"e">>, <<"+">>, <<"]">> }

(* Integer lexemes at and beyond the width of int and of long. *)
LongInts ==
    { <<"1","2","3","4","5","6","7","8","9","0","1","2","3","4","5","6","7","8","9","0">>,
      <<"9","9","9","9","9","9","9","9","9","9">>,
      <<"2","1","4","7","4","8","3","6","4","7">>,
      <<"2","1","4","7","4","8","3","6","4","8">>,
      <<"-","2","1","4","7","4","8","3","6","4","8">>,
      <<"1","2","3","4","5","6","7">>,
      <<"-","1","2","3","4","5","6","7">>,
      <<"1","2","3","4","5","6","7","8">>,
      <<"-","1","2","3","4","5","6","7","8">>,
      <<"1","2","3","4","5","6","7","-","8">>,
      <<"4","2","9","4","9","6","7","2","9","6","0","1">>,
      <<"-","4","2","9","4","9","6","7","2","9","6","0","1">> }

(* Exponents written with E, and signs around them. *)
ExpDocs ==
    { <<"1", "E", "1", "E", "1">>, <<"1", "e", "1", "E", "1">>, <<"1", "E", "+", "1">>,
      <<"1", "E", "-", "1">>, <<"1", "E", "+", "+", "1">>, <<"1", "e", "1", "+", "2">>,
      <<"1", "e", "+", "-", "1">>, <<"1", "e", "5", "-">>, <<"1", ".", "5", ".", "5">> }

NumDocs ==
    Docs(NumBytes, MaxNumLen)
    \cup {<<"[">> \o d \o <<"]">> : d \in ExpDocs}
    \cup {<<"[">> \o d : d \in Docs(NumBytes, MaxNumLen)}
    \cup {<<"[">> \o d \o <<"]">> : d \in LongInts}

ArrFrags == { <<"[">>, <<"]">>, <<",">>, <<"1">>, <<"2">>, <<" ">> }

ArrDocs == {<<"[">> \o d : d \in Docs(ArrFrags, MaxArrFrags)}

ObjFrags ==
    { <<"\"", "a", "\"", ":", "1">>, <<"\"", "a", "\"", ":", "2">>,
      <<"\"", "b", "\"", " ", ":", "2">>, <<"\"", "a", "\"">>,
      <<",">>, <<"}">>, <<" ">>, <<"]">> }

ObjDocs == {<<"{">> \o d : d \in Docs(ObjFrags, MaxObjFrags)}

(* Literals, whole and cut short, alone and in arrays and objects. *)
LitFrags ==
    { <<"t", "r", "u", "e">>, <<"f", "a", "l", "s", "e">>, <<"n", "u", "l", "l">>,
      <<"t", "r", "u">>, <<"f", "a", "l", "s">>, <<"n", "u">>, <<"t">>, <<"f", "a">>,
      <<"e">>, <<"l">>, <<"x">>, <<",">>, <<"]">>, <<" ">> }

LitDocs(k) ==
    Docs(LitFrags, k)
    \cup {<<"[">> \o d : d \in Docs(LitFrags, k)}
    \cup {<<"{", "\"", "a", "\"", ":">> \o d \o <<"}">> : d \in Docs(LitFrags, 1)}

(* Strings in an array: letters, control bytes, a NUL, an escape. *)
StrFrags ==
    { <<"a">>, <<"SOH">>, <<"\n">>, <<NUL>>, <<"\"">>, <<"\\", "n">>, <<"]">>, <<",">> }

StrDocs(k) == {<<"[", "\"">> \o d : d \in Docs(StrFrags, k)}

(* Pairs with keys and values with and without escapes, in an object. *)
KeyFrags ==
    { <<"\"", "\\", "n", "\"", ":", "1">>,
      <<"\"", "a", "\"", ":", "2">>,
      <<"\"", "a", "\\", "t", "\"", ":", "\"", "\\", "n", "\"">>,
      <<"\"", "b", "\"", ":", "\"", "\\", "n", "\"">>,
      <<"\"", "\\", "n", "\"", ":", "{">>,
      <<",">>, <<"}">> }

KeyDocs(k) == {<<"{">> \o d : d \in Docs(KeyFrags, k)}

(* One call at a time: nothing runs beside it. *)
NoThreads == [th |-> <<>>, rc |-> NewHeap.rc]

InitWith(docs) ==
    /\ input \in docs \cup CoreDocs
    /\ longBits \in IF Len(input) >= INT_MAX_DIGITS THEN {32, 64} ELSE {64}
    /\ variant = "valid"
    /\ \E u \in IF "\"" \in Range(input) THEN BOOLEAN ELSE {FALSE} :
           parser = NewParser(u)
    /\ stack = <<ParseFrame>>
    /\ status = "running"
    /\ msg = ""
    /\ result = VOID
    /\ heap = NewHeap
    /\ lastobj = [hv |-> <<>>, stores |-> <<>>]
    /\ vres = [status |-> "pending", msg |-> "", end |-> 0, parser |-> NewParser(FALSE)]
    /\ threads = NoThreads
    /\ ret = "none"

Init == InitWith(Docs(GenFrags, MaxFrags))

InitNum == InitWith(NumDocs)

InitArr == InitWith(ArrDocs)

InitObj == InitWith(ObjDocs)

InitLit == InitWith(LitDocs(MaxLitFrags))

InitStr == InitWith(StrDocs(MaxStrFrags))

InitKey == InitWith(KeyDocs(MaxKeyFrags))

(* Documents with every kind of value, nested. *)
CutBase ==
    CoreDocs \cup
    { <<"[", "-", "1", "0", ".", "5", "e", "+", "1", ",", "0", "]">>,
      <<" ", "f", "a", "l", "s", "e", " ">>,
      <<"{", "\"", "a", "\"", ":", "{", "\"", "b", "\"", ":", "[", "[", "]", ",", "{", "}", "]", "}", "}">>,
      <<"[", "1", "2", " ", ",", "\"", "\"", ",", "t", "r", "u", "e", ",", " ", "[", "n", "u", "l", "l", "]", "]">> }

(* Every document of CutBase cut short at every length, and with a NUL *)
(* in the place of each of its bytes.                                  *)
CutDocs(base) ==
    UNION {{SubSeq(d, 1, k) : k \in 0 .. Len(d)} : d \in base}
    \cup UNION {{[d EXCEPT ![i] = NUL] : i \in DOMAIN d} : d \in base}

InitCut == InitWith(CutDocs(CutBase))

(* Two numbers in an array; values between whitespace in nested arrays. *)
LiveBase ==
    { <<"[", "-", "1", "0", ".", "5", "e", "+", "1", ",", "0", "]">>,
      <<"[", "1", "2", " ", ",", "\"", "\"", ",", "t", "r", "u", "e", ",", " ", "[", "n", "u", "l", "l", "]", "]">> }

InitLive == InitWith(CutDocs(LiveBase))

-----------------------------------------------------------------------------
(* The steps. *)

At_(fn, pc) ==
    /\ status = "running"
    /\ Top(stack).fn = fn
    /\ pc # "" => Top(stack).pc = pc

Frame == /\ UNCHANGED <<input, longBits, variant, vres, threads, ret>>

ParseStart == At_("parse", "parse_start") /\ Set(parse_start(Cur, input, variant)) /\ Frame

CheckEnd == At_("parse", "check_end") /\ Set(check_end(Cur, input, variant)) /\ Frame

NumberStart == At_("number", "") /\ Set(number_start(Cur, input, longBits, variant)) /\ Frame

StringLoop == At_("string", "") /\ Set(string_loop(Cur, input, variant)) /\ Frame

ArrayStart == At_("array", "array_start") /\ Set(array_start(Cur, input, variant)) /\ Frame

ArrayMiddle == At_("array", "array_middle") /\ Set(array_middle(Cur, input, variant)) /\ Frame

HashStart == At_("object", "hash_start") /\ Set(hash_start(Cur, input, variant)) /\ Frame

HashNext == At_("object", "hash_next") /\ Set(hash_next(Cur, input, variant)) /\ Frame

HashValue == At_("object", "hash_value") /\ Set(hash_value(Cur, input, variant)) /\ Frame

(* The validation entry point has ended: the same bytes go to the        *)
(* materializing entry point, with a fresh parser and the same heap.     *)
NextVariant ==
    /\ status # "running"
    /\ variant = "valid"
    /\ vres' = [status |-> status, msg |-> msg, end |-> parser.end, parser |-> parser]
    /\ variant' = "perl"
    /\ parser' = NewParser(parser.unicode)
    /\ stack' = <<ParseFrame>>
    /\ status' = "running"
    /\ msg' = ""
    /\ result' = VOID
    /\ UNCHANGED <<input, longBits, heap, lastobj, threads, ret>>

Next ==
    \/ ParseStart
    \/ CheckEnd
    \/ NumberStart
    \/ StringLoop
    \/ ArrayStart
    \/ ArrayMiddle
    \/ HashStart
    \/ HashNext
    \/ HashValue
    \/ NextVariant

Spec == Init /\ [][Next]_vars

SpecNum == InitNum /\ [][Next]_vars

SpecArr == InitArr /\ [][Next]_vars

SpecObj == InitObj /\ [][Next]_vars

SpecLit == InitLit /\ [][Next]_vars

SpecStr == InitStr /\ [][Next]_vars

SpecKey == InitKey /\ [][Next]_vars

SpecCut == InitCut /\ [][Next]_vars

(* The parser is straight-line C that waits for nothing: a step that *)
(* can be taken is taken.                                             *)
SpecLive == InitLive /\ [][Next]_vars /\ WF_vars(Next)


-----------------------------------------------------------------------------
(* Properties. *)

Finished == status # "running"

BothDone == variant = "perl" /\ Finished

(* C1: the validating variant and the materializing variant accept the   *)
(* same inputs and, on rejection, fail with the cursor at the same byte, *)
(* the same message, error kind, construct kind, offsets and expected    *)
(* set.                                                                  *)
VariantsAgree ==
    BothDone =>
        /\ status = vres.status
        /\ parser.end = vres.end
        /\ msg = vres.msg
        /\ parser.error = vres.parser.error
        /\ parser.bad_type = vres.parser.bad_type
        /\ parser.bad_byte = vres.parser.bad_byte
        /\ parser.bad_beginning = vres.parser.bad_beginning
        /\ parser.expected = vres.parser.expected

(* Both variants have rejected an input inside a nested construct, with  *)
(* an expected set reported.                                             *)
VariantsAgreeWitness ==
    /\ BothDone
    /\ status = "failed"
    /\ vres.status = "failed"
    /\ Len(stack) >= 3
    /\ parser.expected # {}

(* C2: a validation run builds nothing: no Perl value comes to life, the *)
(* shared literals' reference counts stay, no array or hash gets an      *)
(* element and nothing is returned.                                      *)
ValidationBuildsNothing ==
    variant = "valid" =>
        /\ heap = NewHeap
        /\ result = VOID
        /\ \A i \in DOMAIN stack :
              /\ stack[i].fn = "array" => stack[i].av = <<>>
              /\ stack[i].fn = "object" => stack[i].hv = <<>>

(* A validation run has accepted a document with a literal in an array   *)
(* or object.                                                            *)
ValidationBuildsNothingWitness ==
    /\ variant = "valid"
    /\ status = "ok"
    /\ Range(input) \cap {"[", "{"} # {}
    /\ \E i \in 1 .. Len(input) - 3 :
           input[i] = "t" /\ input[i + 1] = "r" /\ input[i + 2] = "u" /\ input[i + 3] = "e"


(* The JSON number grammar: an optional minus; 0, or a digit 1-9 and   *)
(* digits; optionally a '.' and one digit or more; optionally e or E,  *)
(* an optional sign and one digit or more.                             *)
IsJsonNumber(lex) ==
    LET i0 == IF At(lex, 1) = "-" THEN 2 ELSE 1
        n1 == IF At(lex, i0) = "0" THEN 1 ELSE SpanDigits(lex, i0)
        p  == i0 + n1
        n2 == IF At(lex, p) = "." THEN SpanDigits(lex, p + 1) ELSE 0
        p2 == IF At(lex, p) = "." THEN p + 1 + n2 ELSE p
        q  == IF At(lex, p2 + 1) \in {"+", "-"} THEN p2 + 2 ELSE p2 + 1
        n3 == IF At(lex, p2) \in {"e", "E"} THEN SpanDigits(lex, q) ELSE 0
        p3 == IF At(lex, p2) \in {"e", "E"} THEN q + n3 ELSE p2
    IN  /\ n1 >= 1
        /\ At(lex, p) = "." => n2 >= 1
        /\ At(lex, p2) \in {"e", "E"} => n3 >= 1
        /\ p3 = Len(lex) + 1

(* The integers among them: no '.', no exponent. *)
IsJsonInteger(lex) == IsJsonNumber(lex) /\ Range(lex) \subseteq DIGIT \cup {"-"}

NumberBytes == DIGIT \cup {".", "+", "-", "e", "E"}

(* The input is an array around one run of number bytes. *)
OneLexemeArray ==
    /\ Len(input) >= 3
    /\ input[1] = "["
    /\ input[Len(input)] = "]"
    /\ \A i \in 2 .. Len(input) - 1 : input[i] \in NumberBytes

InnerLexeme == SubSeq(input, 2, Len(input) - 1)

(* The decimal numeral of an int. *)
RECURSIVE DecNat(_)
DecNat(k) == IF k < 10 THEN <<DigitChar(k)>> ELSE Append(DecNat(k \div 10), DigitChar(k % 10))

RECURSIVE DecNeg(_)
DecNeg(k) ==
    LET q == (k + 9) \div 10
    IN  IF k > -10 THEN <<DigitChar(-k)>> ELSE Append(DecNeg(q), DigitChar(10 * q - k))

DecOf(k) == IF k < 0 THEN <<"-">> \o DecNeg(k) ELSE DecNat(k)

(* C3 (as claimed): the number scanner is strict: a lexeme it returns a  *)
(* value for matches the JSON number grammar.                            *)
NumberScannerStrict ==
    (BothDone /\ status = "ok" /\ OneLexemeArray) => IsJsonNumber(InnerLexeme)

(* C4 (as claimed): an accepted integer lexeme yields an Integer of the  *)
(* lexeme's decimal value, or else the lexeme's text verbatim.           *)
IntegerExact ==
    (BothDone /\ status = "ok" /\ OneLexemeArray /\ IsJsonInteger(InnerLexeme)) =>
        LET r == result.av[1]
        IN  \/ r.t = "PV" /\ r.pv = InnerLexeme
            \/ r.t = "IV" /\ (IF InnerLexeme = <<"-", "0">> THEN r.iv = 0
                              ELSE DecOf(r.iv) = InnerLexeme)

(* C5 (as claimed): the number scanner does not itself reject a valid    *)
(* lexeme that the end of the input terminates, and the documents 0 and  *)
(* 0.5 parse.                                                            *)
NumberLeavesEndToCaller ==
    /\ ~ /\ status = "failed"
         /\ parser.bad_type = "json_number"
         /\ parser.error = "json_error_unexpected_end_of_input"
         /\ IsJsonNumber(Slice(input, parser.bad_beginning, Len(input)))
    /\ (Finished /\ input \in {<<"0">>, <<"0", ".", "5">>}) => status = "ok"

(* The part of the lexeme number () has read so far. *)
Consumed == Slice(input, Top(stack).start, parser.end)

InNumber == status = "running" /\ Top(stack).fn = "number"

LeadingZeroSeen(lex) ==
    \E i \in DOMAIN lex : lex[i] = "0" /\ \A j \in 1 .. i - 1 : lex[j] \notin DIGIT

NoDotOrExp(lex) == Range(lex) \cap {".", "e", "E"} = {}

LeadingZeroFailure == status = "failed" /\ msg = "leading 0 in number"

RECURSIVE PrevToken(_, _)
PrevToken(in, i) ==
    IF i = 0 THEN NUL
    ELSE IF ByteAt(in, i - 1) \in WHITESPACE THEN PrevToken(in, i - 1)
    ELSE ByteAt(in, i - 1)

AtArrayClose ==
    status = "running" /\ Top(stack).fn = "array" /\ ByteAt(input, parser.end) = "]"

(* C7: in array () a ']' closes the array directly after '[' or after an *)
(* element; after an accepted ',' it fails with the trailing-comma error *)
(* of an array.  [1,2] yields two elements.                              *)
ArrayCloseRule ==
    [][/\ AtArrayClose =>
             IF PrevToken(input, parser.end) = ","
             THEN /\ status' = "failed"
                  /\ parser'.error = "json_error_trailing_comma"
                  /\ parser'.bad_type = "json_array"
                  /\ msg' = "Illegal trailing comma"
             ELSE /\ status' = "running"
                  /\ Len(stack') = Len(stack) - 1
       /\ (status' = "ok" /\ variant = "perl" /\ input = <<"[", "1", ",", "2", "]">>)
             => Len(result'.av) = 2]_vars

(* [1,2,] and the like, rejected at the ']'. *)
ArrayCloseWitness ==
    /\ status = "failed"
    /\ parser.error = "json_error_trailing_comma"
    /\ parser.bad_type = "json_array"
    /\ Top(stack).comma
    /\ \E i \in DOMAIN input : input[i] \in DIGIT

(* A value written back as JSON text, without whitespace. *)
RECURSIVE Render(_)
RECURSIVE RenderAll(_)
Render(sv) ==
    CASE sv.t = "IV" -> DecOf(sv.iv)
      [] sv.t = "AV" -> <<"[">> \o RenderAll(sv.av) \o <<"]">>

RenderAll(vs) ==
    IF vs = <<>> THEN <<>>
    ELSE IF Len(vs) = 1 THEN Render(vs[1])
    ELSE Render(vs[1]) \o <<",">> \o RenderAll(Tail(vs))

StripWhitespace(in) == SelectSeq(in, LAMBDA c : c \notin WHITESPACE)

(* C8: an accepted array holds one element per value between its         *)
(* brackets, in the order of the input, a nested array being one         *)
(* element: written back, the result is the input less its whitespace.   *)
ArrayInOrder ==
    (BothDone /\ status = "ok" /\ Range(input) \subseteq {"[", "]", ",", " "} \cup DIGIT19)
        => Render(result) = StripWhitespace(input)

(* An accepted array of two or more elements with an array among them. *)
ArrayInOrderWitness ==
    /\ BothDone
    /\ status = "ok"
    /\ Range(input) \subseteq {"[", "]", ",", " "} \cup DIGIT19
    /\ Len(result.av) >= 2
    /\ \E i \in DOMAIN result.av : result.av[i].t = "AV"
    /\ \E i \in DOMAIN result.av : result.av[i].t = "IV"


(* The 1-based positions where the key "k" stands in the input. *)
KeyPositions(k) ==
    {i \in 1 .. Len(input) - 2 :
        input[i] = "\"" /\ input[i + 1] = k /\ input[i + 2] = "\""}

Max(S) == CHOOSE x \in S : \A y \in S : y <= x

(* The first digit at or after 1-based position i. *)
RECURSIVE DigitFrom(_)
DigitFrom(i) == IF input[i] \in DIGIT THEN input[i] ELSE DigitFrom(i + 1)

FlatObjectBytes == {"{", "}", "\"", "a", "b", ":", ",", " ", "1", "2"}

DuplicateKeyDoc ==
    <<"{", "\"", "a", "\"", ":", "1", ",", "\"", "a", "\"", ":", "2", "}">>

(* C9: in an accepted object each key maps to the value of its last      *)
(* occurrence in the input, the hash has one entry per key, and a        *)
(* duplicate key is no error.                                            *)
LastWriteWins ==
    /\ (BothDone /\ status = "ok" /\ Range(input) \subseteq FlatObjectBytes) =>
          /\ \A k \in {"a", "b"} :
                LET hk == [k |-> <<k>>, utf8 |-> parser.unicode]
                IN  IF KeyPositions(k) = {} THEN ~hv_exists(result.hv, hk)
                    ELSE /\ hv_exists(result.hv, hk)
                         /\ hv_fetch(result.hv, hk)
                              = newSViv(DigitVal(DigitFrom(Max(KeyPositions(k)))))
          /\ Len(result.hv) = Cardinality({k \in {"a", "b"} : KeyPositions(k) # {}})
    /\ (BothDone /\ input = DuplicateKeyDoc) => status = "ok"

(* An accepted object in which a key occurs twice, with two values. *)
LastWriteWinsWitness ==
    /\ BothDone
    /\ status = "ok"
    /\ Range(input) \subseteq FlatObjectBytes
    /\ Cardinality(KeyPositions("a")) = 2
    /\ Len(lastobj.stores) = 2
    /\ lastobj.stores[1][2] # lastobj.stores[2][2]
    /\ Len(result.hv) = 1

(* The routine at the top of the stack, at its label. *)
Handler(n, in, lb, v) ==
    LET f == Top(n.stack)
    IN  CASE f.fn = "number" -> number_start(n, in, lb, v)
          [] f.fn = "string" -> string_loop(n, in, v)
          [] f.fn = "parse" /\ f.pc = "parse_start" -> parse_start(n, in, v)
          [] f.fn = "parse" /\ f.pc = "check_end" -> check_end(n, in, v)
          [] f.fn = "array" /\ f.pc = "array_start" -> array_start(n, in, v)
          [] f.fn = "array" /\ f.pc = "array_middle" -> array_middle(n, in, v)
          [] f.fn = "object" /\ f.pc = "hash_start" -> hash_start(n, in, v)
          [] f.fn = "object" /\ f.pc = "hash_next" -> hash_next(n, in, v)
          [] f.fn = "object" /\ f.pc = "hash_value" -> hash_value(n, in, v)

(* The bytes of a token category, and of an expected set: the 256-entry  *)
(* table of the diagnostic.                                              *)
CategoryBytes(x) ==
    CASE x = XWHITESPACE -> WHITESPACE
      [] x = VALUE_START -> ValueStartBytes
      [] x = STRING_START -> {"\""}
      [] x = COMMA -> {","}
      [] x = VALUE_SEPARATOR -> {":"}
      [] x = ARRAY_END -> {"]"}
      [] x = OBJECT_END -> {"}"}

LegalBytes(expected) == UNION {CategoryBytes(x) : x \in expected}

(* The input with byte b at offset i (the terminator's offset included). *)
Substitute(in, i, b) == IF i < Len(in) THEN [in EXCEPT ![i + 1] = b] ELSE Append(in, b)

(* The state the failing routine was in when it read the bad byte. *)
BeforeFailure ==
    [Cur EXCEPT !.status = "running", !.msg = "",
                !.parser = [parser EXCEPT !.end = parser.bad_byte,
                                          !.bad_byte = NULL,
                                          !.expected = {}]]

(* The routine takes byte b where it found the bad byte: it does not     *)
(* fail, or fails further on.                                            *)
TakesByte(b) ==
    LET post == Handler(BeforeFailure, Substitute(input, parser.bad_byte, b),
                        longBits, variant)
    IN  IF post.status = "failed"
        THEN post.parser.end > parser.bad_byte + 1
        ELSE TRUE

ReportsExpected == status = "failed" /\ parser.expected # {} /\ parser.bad_byte # NULL

(* C10 (as claimed): every byte the expected set of a failure marks      *)
(* legal is taken by the parser at the failing offset.                   *)
ExpectedSetSound ==
    ReportsExpected => \A b \in LegalBytes(parser.expected) : TakesByte(b)


(* The bytes tried at a failing offset: every byte some routine takes,   *)
(* and one that none does.                                               *)
ProbeBytes == WHITESPACE \cup ValueStartBytes \cup {",", ":", "]", "}", "x"}

(* C11 (as claimed): every byte the failing routine would have taken at  *)
(* the failing offset is marked legal by the expected set of the         *)
(* failure.                                                              *)
ExpectedSetComplete ==
    ReportsExpected =>
        \A b \in ProbeBytes : TakesByte(b) => b \in LegalBytes(parser.expected)


(* The three literals, as byte sequences. *)
LiteralWords ==
    { <<"t", "r", "u", "e">>, <<"f", "a", "l", "s", "e">>, <<"n", "u", "l", "l">> }

WordAt(e) == CHOOSE w \in LiteralWords : w[1] = ByteAt(input, e)

(* The letters of w that the input does not have at offset e onwards. *)
Mismatches(e, w) == {i \in 1 .. Len(w) : ByteAt(input, e + i - 1) # w[i]}

FirstMismatch(e, w) ==
    CHOOSE i \in Mismatches(e, w) : \A j \in Mismatches(e, w) : i <= j

WordValue(w) ==
    CASE w[1] = "t" -> json_true [] w[1] = "f" -> json_false [] w[1] = "n" -> json_null

(* A routine is about to read the first letter of a literal where it    *)
(* takes a value.                                                       *)
AtLiteral ==
    /\ status = "running"
    /\ \/ Top(stack).fn = "parse" /\ Top(stack).pc = "parse_start"
       \/ Top(stack).fn = "array" /\ Top(stack).pc = "array_start"
       \/ Top(stack).fn = "object" /\ Top(stack).pc = "hash_value"
    /\ ByteAt(input, parser.end) \in {"t", "f", "n"}

BadLiteralFailure == status = "failed" /\ parser.error = "json_error_bad_literal"

(* C12: the literal matcher takes exactly true, false and null: on a    *)
(* full match it yields that literal and leaves the cursor one past its *)
(* last letter; otherwise it fails with the bad-literal error, the bad  *)
(* byte at the first mismatching byte and the beginning at the first    *)
(* letter; and nothing else raises that error.                          *)
LiteralExact ==
    [][/\ AtLiteral =>
            LET e == parser.end
                w == WordAt(e)
                f == Top(stack)
                g == Top(stack')
            IN  IF Mismatches(e, w) = {}
                THEN /\ status' = "running"
                     /\ parser'.end = e + Len(w)
                     /\ Len(stack') = Len(stack)
                     /\ variant = "perl" =>
                           CASE f.fn = "parse" -> result' = WordValue(w)
                             [] f.fn = "array" -> g.av = Append(f.av, WordValue(w))
                             [] f.fn = "object" ->
                                  /\ Len(g.stores) = Len(f.stores) + 1
                                  /\ g.stores[Len(g.stores)][2] = WordValue(w)
                ELSE /\ status' = "failed"
                     /\ parser'.error = "json_error_bad_literal"
                     /\ parser'.bad_type = "json_literal"
                     /\ parser'.bad_byte = e + FirstMismatch(e, w) - 1
                     /\ parser'.bad_beginning = e
       /\ BadLiteralFailure' => AtLiteral /\ Mismatches(parser.end, WordAt(parser.end)) # {}]_vars

(* `fals,' has been rejected at the comma, inside an array. *)
LiteralExactWitness ==
    /\ BadLiteralFailure
    /\ variant = "perl"
    /\ parser.bad_beginning >= 1
    /\ parser.bad_byte = parser.bad_beginning + 4
    /\ ByteAt(input, parser.bad_beginning) = "f"
    /\ ByteAt(input, parser.bad_byte) = ","


(* The control bytes 0x00-0x1F that occur in the inputs. *)
ControlBytes == {NUL, "SOH", "\t", "\n", "\r", "US"}

(* The 1-based positions of the input that lie in the body of a string: *)
(* after an opening quote and before the quote that closes it, a        *)
(* backslash taking the byte after it along.                            *)
RECURSIVE StringBody(_, _)
StringBody(i, inside) ==
    IF i > Len(input) THEN {}
    ELSE IF ~inside THEN StringBody(i + 1, input[i] = "\"")
    ELSE IF input[i] = "\"" THEN StringBody(i + 1, FALSE)
    ELSE IF input[i] = "\\" THEN {i, i + 1} \cup StringBody(i + 2, TRUE)
    ELSE {i} \cup StringBody(i + 1, TRUE)

(* string () is about to read a control byte that is not the terminator. *)
AtControlByte ==
    /\ status = "running"
    /\ Top(stack).fn = "string"
    /\ parser.end < Len(input)
    /\ ByteAt(input, parser.end) \in ControlBytes

(* C13: in the fast loop of string () an unescaped control byte before  *)
(* the closing quote, a NUL that is not the end of the input included,  *)
(* fails as an illegal byte at that byte; and no accepted input has a   *)
(* control byte in the body of a string.                                *)
ControlByteIllegal ==
    [][/\ AtControlByte =>
             /\ status' = "failed"
             /\ parser'.error = "json_error_illegal_byte"
             /\ parser'.bad_byte = parser.end
       /\ status' = "ok" =>
             \A i \in StringBody(1, FALSE) :
                 i <= Len(input) => input[i] \notin ControlBytes]_vars

(* A NUL in the middle of a string body without escapes has been       *)
(* rejected.                                                           *)
ControlByteIllegalWitness ==
    /\ status = "failed"
    /\ "\\" \notin Range(input)
    /\ parser.error = "json_error_illegal_byte"
    /\ parser.bad_byte >= 3
    /\ parser.bad_byte < Len(input) - 1
    /\ ByteAt(input, parser.bad_byte) = NUL


(* The input ends in the body of a string: the quote that opened it is  *)
(* not closed.                                                          *)
RECURSIVE OpenAtEnd(_, _)
OpenAtEnd(i, inside) ==
    IF i > Len(input) THEN inside
    ELSE IF ~inside THEN OpenAtEnd(i + 1, input[i] = "\"")
    ELSE IF input[i] = "\"" THEN OpenAtEnd(i + 1, FALSE)
    ELSE IF input[i] = "\\" THEN (IF i = Len(input) THEN TRUE ELSE OpenAtEnd(i + 2, TRUE))
    ELSE OpenAtEnd(i + 1, TRUE)

InString == status = "running" /\ Top(stack).fn = "string"

EndOfInputInString ==
    /\ status' = "failed"
    /\ parser'.error = "json_error_unexpected_end_of_input"
    /\ parser'.bad_type = "json_string"

(* C14: a string whose closing quote is missing fails, when the end of  *)
(* the input is reached in its body, with the unexpected-end-of-input   *)
(* error and construct kind string, not as an illegal byte; and no      *)
(* input that ends inside a string is accepted.                         *)
UnterminatedString ==
    [][/\ (InString /\ parser.end = Len(input)) => EndOfInputInString
       /\ (InString /\ status' = "failed" /\ parser'.end > Len(input)) => EndOfInputInString
       /\ status' = "ok" => ~OpenAtEnd(1, FALSE)]_vars

(* The end of the input has been reached in a string body that has a    *)
(* letter and no escape.                                                *)
UnterminatedStringWitness ==
    /\ status = "failed"
    /\ Top(stack).fn = "string"
    /\ parser.error = "json_error_unexpected_end_of_input"
    /\ parser.end = Len(input) + 1
    /\ Top(stack).len >= 1
    /\ "\\" \notin Range(input)


-----------------------------------------------------------------------------
(* Two materializing parse calls in two threads, each on its own buffer  *)
(* with its own parser_t and C stack.  json_true, json_false and         *)
(* json_null are the same three values for both; SvREFCNT_inc is a load  *)
(* and a store of the count, with no lock around them.                   *)

Threads == {1, 2}

ThreadDocs ==
    { <<"[", "t", "r", "u", "e", "]">>,
      <<"[", "t", "r", "u", "e", ",", "n", "u", "l", "l", "]">>,
      <<"[", "1", ",", "t", "r", "u", "e", "]">>,
      <<"[", "f", "a", "l", "s", "e", "]">>,
      <<"[", "1", "]">> }

NoPend == [lit |-> "", val |-> 0]

(* A call as the entry point starts it. *)
NewCall ==
    [parser |-> NewParser(FALSE), stack |-> <<ParseFrame>>, status |-> "running",
     msg |-> "", result |-> VOID, heap |-> NewHeap,
     lastobj |-> [hv |-> <<>>, stores |-> <<>>]]

InitThreads ==
    /\ input = <<>>
    /\ longBits = 64
    /\ variant = "perl"
    /\ parser = NewParser(FALSE)
    /\ stack = <<ParseFrame>>
    /\ status = "idle"
    /\ msg = ""
    /\ result = VOID
    /\ heap = NewHeap
    /\ lastobj = [hv |-> <<>>, stores |-> <<>>]
    /\ vres = [status |-> "pending", msg |-> "", end |-> 0, parser |-> NewParser(FALSE)]
    /\ ret = "none"
    /\ \E d1 \in ThreadDocs, d2 \in ThreadDocs :
          threads = [th |-> << [input |-> d1, n |-> NewCall, pend |-> NoPend],
                               [input |-> d2, n |-> NewCall, pend |-> NoPend] >>,
                     rc |-> NewHeap.rc]

(* Thread t has run its routine up to the next byte and is in state    *)
(* post; where the routine did SvREFCNT_inc it has loaded the count,    *)
(* and the store is yet to come.                                        *)
ThreadAfter(t, post) ==
    LET inc == {lit \in DOMAIN threads.rc : post.heap.rc[lit] # threads.rc[lit]}
    IN  [threads EXCEPT
            !.th[t].n = post,
            !.th[t].pend = IF inc = {} THEN NoPend
                           ELSE LET lit == CHOOSE l \in inc : TRUE
                                IN  [lit |-> lit, val |-> post.heap.rc[lit]]]

ThreadStep(t) ==
    /\ threads.th[t].n.status = "running"
    /\ threads.th[t].pend = NoPend
    /\ threads' = ThreadAfter(t, Handler([threads.th[t].n EXCEPT !.heap.rc = threads.rc],
                                         threads.th[t].input, longBits, "perl"))
    /\ UNCHANGED <<input, longBits, variant, parser, stack, status, msg, result,
                   heap, lastobj, vres, ret>>

(* Thread t stores the count it has incremented. *)
ThreadStore(t) ==
    LET r == threads.th[t]
    IN  /\ r.pend # NoPend
        /\ threads' = [threads EXCEPT !.rc[r.pend.lit] = r.pend.val,
                                      !.th[t].pend = NoPend]
        /\ UNCHANGED <<input, longBits, variant, parser, stack, status, msg, result,
                       heap, lastobj, vres, ret>>

NextThreads == \E t \in Threads : ThreadStep(t) \/ ThreadStore(t)

SpecThreads == InitThreads /\ [][NextThreads]_vars

(* The call on buffer `in', run alone from state n to its end. *)
RECURSIVE RunAlone(_, _)
RunAlone(n, in) ==
    IF n.status # "running" THEN n
    ELSE RunAlone(Handler(n, in, 64, "perl"), in)

(* The singletons' counts after the two calls, one after the other. *)
SequentialCounts ==
    LET first == RunAlone(NewCall, threads.th[1].input)
    IN  RunAlone([NewCall EXCEPT !.heap = first.heap], threads.th[2].input).heap.rc

ThreadsDone ==
    /\ Len(threads.th) = 2
    /\ \A t \in Threads : threads.th[t].n.status # "running" /\ threads.th[t].pend = NoPend

(* C15 (as claimed): however the steps of two concurrent parse calls    *)
(* interleave, each call ends as it does when run alone, and the shared  *)
(* singletons' reference counts end as after the two calls in sequence.  *)
ThreadsIndependent ==
    ThreadsDone =>
        /\ \A t \in Threads :
              LET alone == RunAlone(NewCall, threads.th[t].input)
              IN  /\ threads.th[t].n.status = alone.status
                  /\ threads.th[t].n.result = alone.result
                  /\ threads.th[t].n.parser = alone.parser
        /\ threads.rc = SequentialCounts


-----------------------------------------------------------------------------
(* valid_json of JSON/Parse.pm: `return undef' if `! $json', else        *)
(* parse_json in an eval and `! $@'.                                     *)

(* The undefined value, where a byte string is expected. *)
UNDEF == <<"undef">>

(* Mutant of Falsy: the test `! $json' left out. *)
Falsy_never(json) == FALSE

(* `! $json': Perl's false values are undef, the empty string and "0". *)
Falsy(json) == json = UNDEF \/ json = <<>> \/ json = <<"0">>

ValidDocs(k) ==
    Docs(GenFrags, k)
    \cup {UNDEF, <<"0">>, <<"0", "0">>, <<" ">>, <<"[", "0", "]">>, <<"n", "u", "l", "l">>}

InitValid ==
    /\ input \in ValidDocs(MaxValidFrags) \cup CoreDocs
    /\ longBits = 64
    /\ variant = "perl"
    /\ parser = NewParser(FALSE)
    /\ stack = <<ParseFrame>>
    /\ status = "called"
    /\ msg = ""
    /\ result = VOID
    /\ heap = NewHeap
    /\ lastobj = [hv |-> <<>>, stores |-> <<>>]
    /\ vres = [status |-> "pending", msg |-> "", end |-> 0, parser |-> NewParser(FALSE)]
    /\ threads = NoThreads
    /\ ret = "none"

(* Lines 26-31: the early return, or the call of parse_json. *)
ValidJsonCall ==
    /\ status = "called"
    /\ status' = IF Falsy(input) THEN "returned" ELSE "running"
    /\ ret' = IF Falsy(input) THEN "undef" ELSE ret
    /\ UNCHANGED <<input, longBits, variant, parser, stack, msg, result, heap,
                   lastobj, vres, threads>>

(* Lines 30-33: parse_json has returned or died in the eval; `! $@'. *)
ValidJsonReturn ==
    /\ status \in {"ok", "empty", "failed"}
    /\ ret = "none"
    /\ ret' = IF status = "failed" THEN "false" ELSE "true"
    /\ status' = "returned"
    /\ UNCHANGED <<input, longBits, variant, parser, stack, msg, result, heap,
                   lastobj, vres, threads>>

NextValid ==
    \/ ValidJsonCall
    \/ ParseStart
    \/ CheckEnd
    \/ NumberStart
    \/ StringLoop
    \/ ArrayStart
    \/ ArrayMiddle
    \/ HashStart
    \/ HashNext
    \/ HashValue
    \/ ValidJsonReturn

SpecValid == InitValid /\ [][NextValid]_vars

(* parse_json on the input completes without a fatal error. *)
ParseCompletes == input # UNDEF /\ RunAlone(NewCall, input).status # "failed"

Last(seq) == seq[Len(seq)]

(* number () is about to read byte c. *)
NumberReads(c) == InNumber /\ ByteAt(input, parser.end) = c /\ parser.end < Len(input)

(* C17 (as claimed): a '-' is taken only as the first byte of the       *)
(* lexeme and directly after e or E; anywhere else it is rejected with  *)
(* a double-minus error at that byte.                                   *)
MinusRule ==
    [][NumberReads("-") =>
          IF Consumed = <<>> \/ Last(Consumed) \in {"e", "E"}
          THEN status' = "running"
          ELSE /\ status' = "failed"
               /\ msg' \in {"Double minus", "Double minus in exponent"}
               /\ parser'.bad_byte = parser.end]_vars

(* C18: a '+' read before any e or E fails with the                     *)
(* plus-outside-exponent error, a second '+' in the lexeme fails with   *)
(* the double-plus error at that byte, the first '+' after an e or E is *)
(* taken; and nothing but a '+' raises these errors.                    *)
PlusRule ==
    [][/\ NumberReads("+") =>
             IF Range(Consumed) \cap {"e", "E"} = {}
             THEN status' = "failed" /\ msg' = "Plus outside exponential"
             ELSE IF "+" \in Range(Consumed)
             THEN /\ status' = "failed"
                  /\ msg' = "Double plus"
                  /\ parser'.bad_byte = parser.end
             ELSE status' = "running" /\ Top(stack').fn = "number"
       /\ (status' = "failed" /\ msg' \in {"Plus outside exponential", "Double plus"})
             => NumberReads("+")]_vars

(* A second '+' has been rejected. *)
PlusRuleWitness ==
    /\ status = "failed"
    /\ msg = "Double plus"
    /\ ByteAt(input, parser.bad_byte) = "+"
    /\ ByteAt(input, parser.bad_byte - 1) = "+"

(* How many of the bytes of seq are in S. *)
Count(seq, S) == Cardinality({i \in DOMAIN seq : seq[i] \in S})

(* number () returns a value to its caller in this step. *)
NumberReturns == InNumber /\ status' = "running" /\ Len(stack') = Len(stack) - 1

(* C19: a second '.' fails with the too-many-decimal-points error and a *)
(* second e or E with the doubled-exponential error, each with the bad  *)
(* byte at the offending byte; so a lexeme a value is returned for has  *)
(* at most one '.' and at most one e or E.                              *)
DotExpOnce ==
    [][/\ (NumberReads(".") /\ "." \in Range(Consumed)) =>
             /\ status' = "failed"
             /\ msg' = "Too many decimal points"
             /\ parser'.bad_byte = parser.end
       /\ (\E c \in {"e", "E"} : NumberReads(c)) /\ Range(Consumed) \cap {"e", "E"} # {} =>
             /\ status' = "failed"
             /\ msg' = "Doubled exponential"
             /\ parser'.bad_byte = parser.end
       /\ NumberReturns =>
             /\ Count(Consumed, {"."}) <= 1
             /\ Count(Consumed, {"e", "E"}) <= 1]_vars

(* An E after an e has been rejected. *)
DotExpOnceWitness ==
    /\ status = "failed"
    /\ msg = "Doubled exponential"
    /\ ByteAt(input, parser.bad_byte) = "E"
    /\ "e" \in Range(input)

(* The offset of the first byte at or after offset i that is no number  *)
(* byte.                                                                *)
RECURSIVE LexemeEnd(_)
LexemeEnd(i) == IF ByteAt(input, i) \in NumberBytes THEN LexemeEnd(i + 1) ELSE i

(* C20: when number () returns a value the cursor is at the byte that   *)
(* ended the lexeme, the first byte from the lexeme's start that is not *)
(* one of 0-9 . + - e E: that byte is what the caller reads next, and   *)
(* the lexeme began at the byte the caller dispatched on.               *)
NumberPushesBack ==
    [][/\ NumberReturns =>
             /\ parser'.end = LexemeEnd(Top(stack).start)
             /\ parser'.end = parser.end
             /\ ByteAt(input, parser'.end) \notin NumberBytes
       /\ (status = "running" /\ Top(stack).fn # "number" /\ status' = "running"
             /\ Top(stack').fn = "number") =>
             /\ Top(stack').start = parser.end
             /\ parser'.end = parser.end
             /\ ByteAt(input, parser.end) \in DIGIT \cup {"-"}]_vars

(* number () has returned inside an array with a comma next: the array  *)
(* is to read that comma.                                               *)
NumberPushesBackWitness ==
    /\ status = "running"
    /\ Top(stack).fn = "array"
    /\ Top(stack).pc = "array_middle"
    /\ ByteAt(input, parser.end) = ","
    /\ ByteAt(input, parser.end - 1) \in DIGIT
    /\ variant = "perl"


(* The value the routine on top of the stack has just taken from the    *)
(* routine it called.                                                   *)
ValueTaken ==
    LET f == Top(stack)
    IN  CASE f.fn = "parse" -> result
          [] f.fn = "array" -> Last(f.av)
          [] f.fn = "object" -> Last(f.stores)[2]

(* The number a run of decimal digits denotes. *)
RECURSIVE DigitsValue(_, _)
DigitsValue(ds, acc) ==
    IF ds = <<>> THEN acc ELSE DigitsValue(Tail(ds), 10 * acc + DigitVal(ds[1]))

(* The number an integer lexeme -?digits denotes. *)
LexemeValue(lex) ==
    IF lex[1] = "-" THEN 0 - DigitsValue(Tail(lex), 0) ELSE DigitsValue(lex, 0)

(* An integer lexeme short enough for the accumulator to be trusted. *)
ShortInteger(lex) ==
    /\ IsJsonInteger(lex)
    /\ Len(lex) < INT_MAX_DIGITS + (IF lex[1] = "-" THEN 1 ELSE 0)

(* C21: an integer lexeme (an optional minus, then 0 or a digit 1-9 and *)
(* digits; no '.', no exponent) of fewer than INT_MAX_DIGITS bytes, one  *)
(* more with a minus sign, yields an Integer of the lexeme's             *)
(* decimal value, which is the accumulator, negated after a '-'.         *)
ShortIntegerExact ==
    [][(NumberReturns /\ variant = "perl" /\ ShortInteger(Consumed)) =>
          /\ ValueTaken' = newSViv(LexemeValue(Consumed))
          /\ LexemeValue(Consumed)
                = (IF Consumed[1] = "-" THEN 0 - Top(stack).guess ELSE Top(stack).guess)]_vars

(* -1234567, of eight bytes, has come out as an Integer. *)
ShortIntegerWitness ==
    /\ variant = "perl"
    /\ status = "ok"
    /\ InnerLexeme = <<"-", "1", "2", "3", "4", "5", "6", "7">>
    /\ result.av = <<newSViv(0 - 1234567)>>

(* C22 (as claimed): a lexeme number () returns a value for gets the    *)
(* same representation and value as in a build with the fast path off   *)
(* (INT_MAX_DIGITS 0: strtol, or else the lexeme verbatim).             *)
FastPathTransparent ==
    [][(NumberReturns /\ variant = "perl") =>
          ValueTaken' = NumberValueWith(Consumed, Top(stack), longBits, 0)]_vars

(* A composer is at its label, about to read a byte of the input. *)
ComposerAt(fn, pc) ==
    /\ status = "running"
    /\ Top(stack).fn = fn
    /\ Top(stack).pc = pc
    /\ parser.end < Len(input)

(* C23 (as claimed): at array_start a byte that is no whitespace, starts *)
(* no value and is neither ']' nor ',' fails as an unknown character     *)
(* with the expected set {value-start, whitespace, array-end}.           *)
ArrayStartUnknown ==
    [][(/\ ComposerAt("array", "array_start")
        /\ ByteAt(input, parser.end) \notin WHITESPACE \cup ValueStartBytes \cup {"]", ","})
          => /\ status' = "failed"
             /\ msg' = "Unknown character"
             /\ parser'.bad_byte = parser.end
             /\ parser'.expected = {VALUE_START, XWHITESPACE, ARRAY_END}]_vars

(* C24 (as claimed): at hash_next whitespace loops and ':' leads to the  *)
(* value; the end of the input and any other byte fail with the expected *)
(* set {whitespace, colon}.                                              *)
KeyColonRule ==
    [][(status = "running" /\ Top(stack).fn = "object" /\ Top(stack).pc = "hash_next") =>
          LET c == ByteAt(input, parser.end)
          IN  IF c \in WHITESPACE /\ parser.end < Len(input)
              THEN status' = "running" /\ Top(stack') = Top(stack)
              ELSE IF c = ":"
              THEN status' = "running" /\ Top(stack').pc = "hash_value"
              ELSE /\ status' = "failed"
                   /\ parser'.expected = {XWHITESPACE, VALUE_SEPARATOR}]_vars

AtObjectClose ==
    /\ status = "running"
    /\ Top(stack).fn = "object"
    /\ parser.end < Len(input)
    /\ ByteAt(input, parser.end) = "}"

(* C25: in object () a '}' closes the object directly after '{' and     *)
(* after a completed key/value pair, and nowhere else; after an         *)
(* accepted ',' it fails with the trailing-comma error of an object.    *)
ObjectCloseRule ==
    [][AtObjectClose =>
          LET f == Top(stack)
              prev == PrevToken(input, parser.end)
          IN  IF f.pc = "hash_start" /\ prev # ","
              THEN /\ status' = "running"
                   /\ Len(stack') = Len(stack) - 1
                   /\ parser'.end = parser.end + 1
                   /\ prev = "{" <=> ~f.middle
                   /\ (variant = "perl" /\ f.middle) => Len(f.stores) >= 1
              ELSE /\ status' = "failed"
                   /\ f.pc = "hash_start" =>
                         /\ parser'.error = "json_error_trailing_comma"
                         /\ parser'.bad_type = "json_object"
                         /\ msg' = "Illegal trailing comma"]_vars

(* An object with a pair and a comma has been rejected at its '}'. *)
ObjectCloseWitness ==
    /\ status = "failed"
    /\ variant = "perl"
    /\ parser.error = "json_error_trailing_comma"
    /\ parser.bad_type = "json_object"
    /\ Top(stack).comma
    /\ Len(Top(stack).stores) >= 1
    /\ ByteAt(input, parser.end - 1) = "}"

(* object () is at hash_start, about to read byte c. *)
AtKeyStart(c) == ComposerAt("object", "hash_start") /\ ByteAt(input, parser.end) = c

(* No pair is complete and waiting for its comma: the last token was the *)
(* '{' or a ','.                                                         *)
NoPairBefore == PrevToken(input, parser.end) \in {"{", ","}

(* In a flat object: every ',' stands between a value and a key, and    *)
(* every key directly after the '{' or a ','.                           *)
CommasSeparatePairs(s) ==
    \A i \in DOMAIN s :
        /\ s[i] = "," => /\ i > 1 /\ s[i - 1] \in DIGIT
                          /\ i < Len(s) /\ s[i + 1] = "\""
        /\ (s[i] = "\"" /\ i < Len(s) /\ s[i + 1] \in {"a", "b"})
              => i > 1 /\ s[i - 1] \in {"{", ","}

(* C26: at hash_start a '"' after a completed pair with no comma in     *)
(* between fails with the missing-comma error, a ',' directly after '{' *)
(* or after another ',' fails with the stray-comma error, and otherwise *)
(* both are taken; so an accepted object has one ',' between            *)
(* consecutive pairs and none before the first or after the last.       *)
KeyStartCommaRule ==
    [][/\ (AtKeyStart("\"") /\ ~NoPairBefore) =>
             /\ status' = "failed"
             /\ msg' = "Missing comma (,) after object value"
             /\ parser'.bad_byte = parser.end
       /\ (AtKeyStart("\"") /\ NoPairBefore) =>
             /\ msg' # "Missing comma (,) after object value"
             /\ status' = "running" => Top(stack').pc = "hash_next"
       /\ (AtKeyStart(",") /\ NoPairBefore) =>
             /\ status' = "failed"
             /\ msg' = "Stray comma"
             /\ parser'.error = "json_error_stray_comma"
             /\ parser'.bad_type = "json_object"
             /\ parser'.bad_byte = parser.end
       /\ (AtKeyStart(",") /\ ~NoPairBefore) =>
             /\ status' = "running"
             /\ Top(stack').pc = "hash_start"
       /\ (status' = "ok" /\ Range(input) \subseteq FlatObjectBytes) =>
             CommasSeparatePairs(StripWhitespace(input))]_vars

(* A second key directly after a pair has been rejected. *)
KeyStartCommaWitness ==
    /\ status = "failed"
    /\ variant = "perl"
    /\ msg = "Missing comma (,) after object value"
    /\ Len(Top(stack).stores) >= 1
    /\ ByteAt(input, parser.bad_byte) = "\""

(* string () returns a value to its caller in this step. *)
StringReturns == InString /\ status' = "running" /\ Len(stack') = Len(stack) - 1

(* The bytes of the body the fast loop has passed so far. *)
Scanned == Slice(input, Top(stack).start, parser.end)

(* The offset of the quote that closes the body from offset i on. *)
RECURSIVE CloseOffset(_)
CloseOffset(i) ==
    IF i >= Len(input) \/ ByteAt(input, i) = "\"" THEN i
    ELSE IF ByteAt(input, i) = "\\" THEN CloseOffset(i + 2)
    ELSE CloseOffset(i + 1)

(* Every backslash of seq begins one of the two-byte escapes. *)
RECURSIVE SimpleEscapesOnly(_)
SimpleEscapesOnly(seq) ==
    IF seq = <<>> THEN TRUE
    ELSE IF seq[1] # "\\" THEN SimpleEscapesOnly(Tail(seq))
    ELSE /\ Len(seq) >= 2
         /\ seq[2] \in {"\"", "\\", "/", "b", "f", "n", "r", "t"}
         /\ SimpleEscapesOnly(SubSeq(seq, 3, Len(seq)))

(* The bytes such a body stands for. *)
RECURSIVE Unescape(_)
Unescape(seq) ==
    IF seq = <<>> THEN <<>>
    ELSE IF seq[1] # "\\" THEN <<seq[1]>> \o Unescape(Tail(seq))
    ELSE <<SimpleEscape(seq[2])>> \o Unescape(SubSeq(seq, 3, Len(seq)))

(* The caller is object (), about to resolve an escaped key of its own. *)
CallerKeyEscaped ==
    /\ Len(stack) >= 2
    /\ stack[Len(stack) - 1].fn = "object"
    /\ stack[Len(stack) - 1].key.bad_boys

(* C27: when the fast loop of string () meets the closing quote, no     *)
(* backslash came before it: the value is the slice of the input        *)
(* between the quotes, as long as there are bytes between them, the     *)
(* cursor is one past the closing quote and nothing is decoded.  When   *)
(* it meets a backslash, and only then, the body is decoded into the    *)
(* buffer, from its first byte on.                                      *)
StringFastPath ==
    [][/\ (InString /\ parser.end < Len(input) /\ ByteAt(input, parser.end) = "\"") =>
             /\ "\\" \notin Range(Scanned)
             /\ StringReturns
             /\ parser'.end = parser.end + 1
             /\ ~CallerKeyEscaped => parser'.buffer = parser.buffer
             /\ variant = "perl" =>
                   /\ ValueTaken'.t = "PV"
                   /\ ValueTaken'.pv = Scanned
                   /\ Len(ValueTaken'.pv) = parser.end - Top(stack).start
       /\ (InString /\ ByteAt(input, parser.end) = "\\" /\ status' = "running") =>
             LET close == CloseOffset(Top(stack).start)
                 body == Slice(input, Top(stack).start, close)
             IN  /\ StringReturns
                 /\ parser'.end = close + 1
                 /\ SimpleEscapesOnly(body) =>
                       /\ ~CallerKeyEscaped => parser'.buffer = Unescape(body)
                       /\ variant = "perl" => ValueTaken'.pv = Unescape(body)
       /\ (StringReturns /\ ~CallerKeyEscaped /\ parser'.buffer # parser.buffer) =>
             ByteAt(input, parser.end) = "\\"]_vars

(* A string of two letters and no escape has come out as those two      *)
(* bytes, and nothing was decoded.                                      *)
StringFastPathWitness ==
    /\ variant = "perl"
    /\ status = "ok"
    /\ "\\" \notin Range(input)
    /\ result.t = "AV"
    /\ Len(result.av) = 1
    /\ result.av[1].t = "PV"
    /\ result.av[1].pv = <<"a", "a">>
    /\ parser.buffer = <<>>

(* The offset of the bracket that closes the construct whose body       *)
(* begins at offset i, at nesting depth `depth', in a string or not.    *)
RECURSIVE MatchClose(_, _, _)
MatchClose(i, depth, inside) ==
    LET c == ByteAt(input, i)
    IN  IF i >= Len(input) THEN i
        ELSE IF inside
        THEN (IF c = "\\" THEN MatchClose(i + 2, depth, TRUE)
              ELSE MatchClose(i + 1, depth, c # "\""))
        ELSE IF c = "\"" THEN MatchClose(i + 1, depth, TRUE)
        ELSE IF c \in {"[", "{"} THEN MatchClose(i + 1, depth + 1, FALSE)
        ELSE IF c \in {"]", "}"}
        THEN (IF depth = 1 THEN i ELSE MatchClose(i + 1, depth - 1, FALSE))
        ELSE MatchClose(i + 1, depth, FALSE)

(* array () or object () returns a value to its caller in this step. *)
ComposerReturns ==
    /\ status = "running"
    /\ Top(stack).fn \in {"array", "object"}
    /\ status' = "running"
    /\ Len(stack') = Len(stack) - 1

(* C28: when array () or object () returns, the cursor is one past the  *)
(* ']' or '}' that closes the bracket the call was entered on, at any   *)
(* depth and whatever whitespace lies between.                          *)
ComposerEndsPastClose ==
    [][ComposerReturns =>
          LET f == Top(stack)
              close == MatchClose(f.start + 1, 1, FALSE)
          IN  /\ ByteAt(input, f.start) = (IF f.fn = "array" THEN "[" ELSE "{")
              /\ close < Len(input)
              /\ ByteAt(input, close) = (IF f.fn = "array" THEN "]" ELSE "}")
              /\ parser'.end = close + 1]_vars

(* A construct with a blank before its closing bracket has returned to  *)
(* the array around it.                                                 *)
ComposerEndsWitness ==
    /\ status = "running"
    /\ Len(stack) >= 2
    /\ Top(stack).fn = "array"
    /\ Top(stack).pc = "array_middle"
    /\ ByteAt(input, parser.end - 1) \in {"]", "}"}
    /\ ByteAt(input, parser.end - 2) = " "

(* The object frame that takes a value in this step: the frame on top   *)
(* after the step, which waited at hash_value before it.                *)
Committing == stack[Len(stack')]

(* object () gets the value of a pair in this step and stores the pair. *)
Commits ==
    /\ status = "running"
    /\ status' = "running"
    /\ variant' = variant
    /\ Len(stack') <= Len(stack)
    /\ Top(stack').fn = "object"
    /\ Top(stack').pc = "hash_start"
    /\ Committing.pc = "hash_value"

(* The bytes of a key between its quotes, as they stand in the input. *)
RawKey(key) == Slice(input, key.start, key.start + key.length)

(* string () decodes the escapes of a value in this step. *)
DecodesValue == InString /\ ByteAt(input, parser.end) = "\\"

(* C29: resolve_string decodes a key with an escape into the buffer in  *)
(* the step in which the value of its pair is complete and the pair is  *)
(* stored, and in no other step: not when the key is read and not       *)
(* again before the next key; a key without an escape is never decoded  *)
(* and is stored as its slice of the input; in both builds alike.       *)
KeyResolvedAtCommit ==
    [][/\ (Commits /\ Committing.key.bad_boys) =>
             /\ "\\" \in Range(RawKey(Committing.key))
             /\ parser'.buffer = Unescape(RawKey(Committing.key))
             /\ variant = "perl" =>
                   /\ Len(Top(stack').stores) = Len(Committing.stores) + 1
                   /\ Last(Top(stack').stores)[1].k = Unescape(RawKey(Committing.key))
       /\ (Commits /\ ~Committing.key.bad_boys) =>
             /\ "\\" \notin Range(RawKey(Committing.key))
             /\ ~DecodesValue => parser'.buffer = parser.buffer
             /\ variant = "perl" =>
                   /\ Len(Top(stack').stores) = Len(Committing.stores) + 1
                   /\ Last(Top(stack').stores)[1].k = RawKey(Committing.key)
       /\ (variant' = variant /\ ~Commits /\ parser'.buffer # parser.buffer) => DecodesValue
       /\ (variant' = variant /\ ~Commits /\ status' = "running") =>
             \A i \in DOMAIN stack' :
                 (i \in DOMAIN stack /\ stack'[i].fn = "object" /\ variant = "perl")
                     => stack'[i].stores = stack[i].stores]_vars

(* The pair of an escaped key and an escaped string has been stored:    *)
(* the value was decoded first and the key after it.                    *)
KeyResolvedWitness ==
    /\ status = "running"
    /\ variant = "perl"
    /\ Top(stack).fn = "object"
    /\ Top(stack).pc = "hash_start"
    /\ Top(stack).stores # <<>>
    /\ Last(Top(stack).stores)[1].k = <<"a", "\t">>
    /\ Last(Top(stack).stores)[2].pv = <<"\n">>
    /\ parser.buffer = <<"a", "\t">>

ConstructKind(fn) ==
    CASE fn = "number" -> "json_number"
      [] fn = "string" -> "json_string"
      [] fn = "array" -> "json_array"
      [] fn = "object" -> "json_object"

(* The failure is that of a key's string, raised while object () reads *)
(* the key.                                                            *)
KeyFailure == Top(stack).fn = "object" /\ msg = "get_key_string"

(* C30 (as claimed): a failure raised by a scanner or composer leaves   *)
(* the error record with the kind of the construct that was being       *)
(* parsed, the offset of that construct's first byte (sign or first     *)
(* digit, opening quote, '[', '{', first letter of the literal) and the *)
(* offset of the offending byte.                                        *)
ErrorRecordPopulated ==
    (status = "failed" /\ (Top(stack).fn # "parse" \/ BadLiteralFailure)) =>
        LET f == Top(stack)
        IN  /\ parser.bad_byte = parser.end - 1
            /\ IF BadLiteralFailure
               THEN /\ parser.bad_type = "json_literal"
                    /\ ByteAt(input, parser.bad_beginning) \in {"t", "f", "n"}
               ELSE IF KeyFailure
               THEN /\ parser.bad_type = "json_string"
                    /\ parser.bad_beginning # NULL
               ELSE /\ parser.bad_type = ConstructKind(f.fn)
                    /\ parser.bad_beginning
                          = (IF f.fn = "string" THEN f.start - 1 ELSE f.start)

(* C31: the internal fault of literal () is out of reach of any input:  *)
(* literal () is entered with 't', 'f' or 'n' only, so failbug is never *)
(* called, and a literal that is wrong fails as an error of the input.  *)
LiteralFaultUnreachable ==
    /\ status # "bug"
    /\ msg # "Attempt to make a literal starting with '%02X'"
    /\ BadLiteralFailure => ByteAt(input, parser.bad_beginning) \in {"t", "f", "n"}

(* literal () has been entered with an n and has yielded null to the    *)
(* array around it.                                                     *)
LiteralFaultWitness ==
    /\ status = "running"
    /\ variant = "perl"
    /\ Top(stack).fn = "array"
    /\ Top(stack).pc = "array_middle"
    /\ Top(stack).av # <<>>
    /\ Last(Top(stack).av) = json_null
    /\ ByteAt(input, parser.end - 4) = "n"

(* C32: no routine reads past the NUL that ends the buffer: the cursor  *)
(* is never more than one byte past the offset of that NUL, the error   *)
(* offsets are offsets of the buffer, and a number's frame starts at a  *)
(* byte of the input not behind the cursor.                             *)
CursorInBuffer ==
    /\ parser.end \in 0 .. Len(input) + 1
    /\ status = "running" => parser.end <= Len(input)
    /\ parser.bad_byte \in {NULL} \cup 0 .. Len(input)
    /\ InNumber => Top(stack).start \in 0 .. parser.end

(* A literal cut short by the end of the input has failed with the      *)
(* cursor one byte past the NUL it read.                                *)
CursorInBufferWitness ==
    /\ BadLiteralFailure
    /\ Len(input) >= 3
    /\ ByteAt(input, parser.bad_beginning) = "t"
    /\ parser.bad_byte = Len(input)
    /\ parser.end = Len(input) + 1

(* What is left to do: three for each byte not yet read, and within a   *)
(* byte the order number () not yet started on its first byte, any      *)
(* other routine, number () with a byte read.                           *)
Rank ==
    3 * (Len(input) + 1 - parser.end)
    + (IF InNumber THEN (IF Consumed = <<>> THEN 0 ELSE 2) ELSE 1)

(* One step of a routine that leaves the parse running. *)
LoopStep == status = "running" /\ variant' = variant /\ status' = "running"

(* C33: every parse ends, by returning or by failing: each step that    *)
(* leaves the parse running moves the cursor forward, but for the step  *)
(* that calls number (), which steps back over the byte just read, and  *)
(* the step in which number () returns, which pushes back the byte just *)
(* read; a number has at least one byte read between the two, so what   *)
(* is left to do shrinks with every step, and both builds finish.       *)
ParseTerminates ==
    /\ [][LoopStep =>
             /\ Rank' < Rank
             /\ Rank' >= 0
             /\ parser'.end >= parser.end
             /\ parser'.end = parser.end =>
                    \/ ~InNumber /\ InNumber' /\ Consumed' = <<>>
                    \/ NumberReturns /\ Consumed # <<>>]_vars
    /\ <>BothDone

(* Both builds have finished on an input with two numbers, each entered *)
(* with a step back and left with a pushback.                           *)
ParseTerminatesWitness ==
    /\ BothDone
    /\ status = "ok"
    /\ input = <<"[", "-", "1", "0", ".", "5", "e", "+", "1", ",", "0", "]">>

(* The flags of object frame f are as its label and the last token     *)
(* before the cursor require.                                          *)
FlagsFit(f, top) ==
    LET prev == PrevToken(input, parser.end)
    IN  /\ ~(f.middle /\ f.comma)
        /\ ~top => f.pc = "hash_value"
        /\ f.pc = "hash_next" => ~f.middle /\ ~f.comma
        /\ f.pc = "hash_value" => f.middle /\ ~f.comma
        /\ (top /\ f.pc = "hash_start") =>
              /\ (~f.middle /\ ~f.comma) <=> prev = "{"
              /\ (~f.middle /\ f.comma) <=> prev = ","
              /\ (f.middle /\ ~f.comma) <=> prev \notin {"{", ","}
              /\ prev = "{" => f.stores = <<>>
              /\ (variant = "perl" /\ prev # "{") => f.stores # <<>>

(* Frame i is an object's before and after the step: how its label and *)
(* its stores may change.                                              *)
PairCycle(i) ==
    LET f == stack[i]
        g == stack'[i]
        c == ByteAt(input, parser.end)
    IN  /\ g.fn = "object"
        /\ g.start = f.start
        /\ \/ g.pc = f.pc /\ g.stores = f.stores /\ g.key = f.key
           \/ /\ f.pc = "hash_start" /\ g.pc = "hash_next"
              /\ i = Len(stack) /\ c = "\""
              /\ g.stores = f.stores
           \/ /\ f.pc = "hash_next" /\ g.pc = "hash_value"
              /\ i = Len(stack) /\ c = ":"
              /\ g.stores = f.stores /\ g.key = f.key
           \/ /\ f.pc = "hash_value" /\ g.pc = "hash_start"
              /\ i = Len(stack')
              /\ g.key = f.key
              /\ Len(g.stores) = Len(f.stores) + (IF variant = "perl" THEN 1 ELSE 0)

(* C34: in object () middle and comma are never both set; at           *)
(* hash_start they are (0,0) directly after the '{', (1,0) after a     *)
(* completed pair and (0,1) after an accepted ','; and a frame goes    *)
(* from hash_start to hash_next by reading a key, from there to        *)
(* hash_value by reading a ':' and from there to hash_start by storing *)
(* one pair, and in no other way.                                      *)
ObjectFlags ==
    [][(status = "running" /\ variant' = variant) =>
          /\ \A i \in DOMAIN stack :
                 stack[i].fn = "object" => FlagsFit(stack[i], i = Len(stack))
          /\ \A i \in DOMAIN stack \cap DOMAIN stack' :
                 stack[i].fn = "object" => PairCycle(i)]_vars

(* object () is at hash_start after a pair and the ',' behind it. *)
ObjectFlagsWitness ==
    /\ status = "running"
    /\ variant = "perl"
    /\ Top(stack).fn = "object"
    /\ Top(stack).pc = "hash_start"
    /\ Top(stack).comma
    /\ ~Top(stack).middle
    /\ Len(Top(stack).stores) = 2

(* The offsets of the brackets opened and not closed in the bytes from *)
(* offset i up to `upto', outside strings, the outermost first.        *)
RECURSIVE OpenBrackets(_, _, _, _)
OpenBrackets(i, upto, open, inside) ==
    LET c == ByteAt(input, i)
    IN  IF i >= upto THEN open
        ELSE IF inside
        THEN (IF c = "\\" THEN OpenBrackets(i + 2, upto, open, TRUE)
              ELSE OpenBrackets(i + 1, upto, open, c # "\""))
        ELSE IF c = "\"" THEN OpenBrackets(i + 1, upto, open, TRUE)
        ELSE IF c \in {"[", "{"} THEN OpenBrackets(i + 1, upto, Append(open, i), FALSE)
        ELSE IF c \in {"]", "}"} /\ open # <<>>
        THEN OpenBrackets(i + 1, upto, Pop(open), FALSE)
        ELSE OpenBrackets(i + 1, upto, open, FALSE)

(* The calls of array () and object () under way, the outermost first. *)
Composers == SelectSeq(stack, LAMBDA f : f.fn \in {"array", "object"})

OpenByte(f) == IF f.fn = "array" THEN "[" ELSE "{"

(* A routine other than a scanner is about to read the closing byte c. *)
ReadsClose(c) ==
    /\ status = "running"
    /\ variant' = variant
    /\ Top(stack).fn \in {"parse", "array", "object"}
    /\ parser.end < Len(input)
    /\ ByteAt(input, parser.end) = c

(* The composer on top is of kind fn, was entered on the innermost     *)
(* bracket still open, and returns in this step.                       *)
ClosesInnermost(fn) ==
    LET open == OpenBrackets(0, parser.end, <<>>, FALSE)
    IN  /\ Top(stack).fn = fn
        /\ open # <<>>
        /\ Top(stack).start = Last(open)
        /\ ByteAt(input, Last(open)) = OpenByte(Top(stack))
        /\ Len(stack') = Len(stack) - 1

(* C35: brackets are matched by kind and nested: a ']' is taken only   *)
(* by the array () entered on the innermost bracket still open, a '}'  *)
(* only by the object () entered on it, and any other ']' or '}' read  *)
(* by a composer or the driver fails; while the parse runs the calls   *)
(* of array () and object () under way are, in order, the brackets     *)
(* opened and not yet closed.                                          *)
BracketsMatch ==
    [][/\ status = "running" =>
             LET open == OpenBrackets(0, parser.end, <<>>, FALSE)
             IN  /\ Len(Composers) = Len(open)
                 /\ \A i \in DOMAIN open :
                        /\ Composers[i].start = open[i]
                        /\ ByteAt(input, open[i]) = OpenByte(Composers[i])
       /\ ReadsClose("]") => (status' = "failed" \/ ClosesInnermost("array"))
       /\ ReadsClose("}") => (status' = "failed" \/ ClosesInnermost("object"))
       /\ (ReadsClose("]") /\ Top(stack).fn # "array") => status' = "failed"
       /\ (ReadsClose("}") /\ Top(stack).fn # "object") => status' = "failed"]_vars

(* A ']' has been refused by an object () inside an array (). *)
BracketsMatchWitness ==
    /\ status = "failed"
    /\ Len(Composers) = 2
    /\ Composers[1].fn = "array"
    /\ Composers[2].fn = "object"
    /\ ByteAt(input, parser.end - 1) = "]"

TrailingCommaFailure == status = "failed" /\ parser.error = "json_error_trailing_comma"

(* C36 (as claimed): whenever the trailing-comma error is reported, the *)
(* bad byte offset is that of the ',' before the closing bracket,       *)
(* whatever whitespace lies between the two.                            *)
TrailingCommaAtComma ==
    TrailingCommaFailure =>
        /\ parser.bad_byte \in 0 .. Len(input) - 1
        /\ ByteAt(input, parser.bad_byte) = ","

(* The first digit of the lexeme that begins at offset i. *)
FirstDigit(i) == ByteAt(input, IF ByteAt(input, i) = "-" THEN i + 1 ELSE i)

(* C37 (as claimed): the leading-zero error is raised only for a lexeme *)
(* whose integer part begins with 0: a digit string of any length that  *)
(* begins with 1-9, with or without a '-' before it, never fails with   *)
(* "leading 0 in number", guess being an int of 32 bits that wraps.     *)
LeadingZeroGenuine ==
    LeadingZeroFailure => FirstDigit(parser.bad_beginning) = "0"

(* The parse has failed on reading the NUL that ends the buffer. *)
EndFailure == status = "failed" /\ parser.end = Len(input) + 1

EndOfInputError == parser.error = "json_error_unexpected_end_of_input"

(* C38 (as claimed): a parse that fails on the NUL that ends the input  *)
(* reports the unexpected-end-of-input error, whichever routine read    *)
(* the NUL.                                                             *)
EndFailureIsEndOfInput == EndFailure => EndOfInputError

(* C38: a parse that fails on the NUL that ends the input reports the   *)
(* unexpected-end-of-input error, unless the NUL was read by literal () *)
(* in the place of a letter of true, false or null, which reports the   *)
(* bad-literal error with the bad byte at the NUL.                      *)
EndFailureRule ==
    EndFailure =>
        IF parser.bad_type = "json_literal"
        THEN /\ parser.error = "json_error_bad_literal"
             /\ parser.bad_byte = Len(input)
             /\ ByteAt(input, parser.bad_beginning) \in {"t", "f", "n"}
        ELSE EndOfInputError

(* null cut short by the end of the input, inside an array, has failed *)
(* as a bad literal.                                                   *)
EndFailureWitness ==
    /\ EndFailure
    /\ variant = "perl"
    /\ parser.error = "json_error_bad_literal"
    /\ Len(stack) = 2
    /\ Top(stack).fn = "array"
    /\ ByteAt(input, parser.bad_beginning) = "n"
    /\ parser.bad_byte = parser.bad_beginning + 2

(* A NUL stands in the input before offset i. *)
NulBefore(i) == \E j \in 0 .. i - 1 : j < Len(input) /\ input[j + 1] = NUL

(* A routine is about to read a NUL that is not the end of the buffer. *)
ReadsNul ==
    /\ status = "running"
    /\ variant' = variant
    /\ parser.end < Len(input)
    /\ ByteAt(input, parser.end) = NUL

(* The parse fails in this step, the last byte read being a NUL inside *)
(* the buffer.                                                         *)
FailsAtNul ==
    /\ status = "running"
    /\ status' = "failed"
    /\ parser'.end <= Len(input)
    /\ ByteAt(input, parser'.end - 1) = NUL

(* C39: a NUL inside the buffer makes the parse fail: the routine that *)
(* reads it fails, number () alone handing it back unread to its       *)
(* caller, which fails on it; the failure is not the end-of-input      *)
(* error; the cursor never gets past such a NUL while the parse runs,  *)
(* and no input with a NUL in it is accepted or taken as empty.        *)
InteriorNulFails ==
    [][/\ status = "running" => ~NulBefore(parser.end)
       /\ status' \in {"ok", "empty"} => NUL \notin Range(input)
       /\ FailsAtNul => parser'.error # "json_error_unexpected_end_of_input"
       /\ ReadsNul =>
             \/ status' = "failed" /\ parser'.end = parser.end + 1
             \/ NumberReturns /\ parser'.end = parser.end
                               /\ Top(stack').fn \in {"parse", "array", "object"}]_vars

(* array () has failed at array_middle on a NUL that number () handed  *)
(* back to it, with bytes of the input still to come.                  *)
InteriorNulWitness ==
    /\ status = "failed"
    /\ variant = "perl"
    /\ Top(stack).fn = "array"
    /\ Top(stack).pc = "array_middle"
    /\ parser.end < Len(input)
    /\ ByteAt(input, parser.end - 1) = NUL
    /\ ByteAt(input, parser.end - 2) \in DIGIT
    /\ parser.error = "json_error_unexpected_character"

(* C40 (as claimed): a materializing parse that fails leaves nothing    *)
(* behind: every array, hash and scalar made during the call has been   *)
(* released, and the counts of the shared true, false and null are what *)
(* they were before the call.                                           *)
FailureLeavesNoResidue ==
    (variant = "perl" /\ status = "failed") =>
        /\ heap.sv = NewHeap.sv
        /\ heap.rc = NewHeap.rc


=============================================================================
